---- MODULE Spec2Model ----
(***************************************************************************)
(* State-machine model of the mileage tracker's detection pipeline: the   *)
(* trip detection engine (class TripDetectionEngine), the location         *)
(* service with its quality filter (class LocationTrackingService), both  *)
(* in src/services/LocationTrackingService.js, and the manager that feeds  *)
(* one into the other (src/services/IntegratedTripManager.js).             *)
(*                                                                         *)
(* Conventions                                                             *)
(*  - Time is in milliseconds, as Date.now() and sample timestamps are.    *)
(*  - Samples lie on one meridian; a location is its arc length in metres  *)
(*    north of a reference point north of the equator (so latitude and     *)
(*    longitude are truthy for the `a || b` defaults of the source).  On   *)
(*    one meridian the haversine distance is the absolute difference.      *)
(*    A raw sample also carries a longitude in degrees, 0 or a full turn   *)
(*    (360), which is the same meridian: sin(dLon/2) = 0 in the haversine. *)
(*  - calculateTripDistance returns kilometres (metres / 1000).  The model *)
(*    keeps such a value as an integer count of 1/KmScale km, and every    *)
(*    comparison of it is written on that scale.                           *)
(*  - Confidence values 0.6, 0.85, 0.9, 0.8 are kept in hundredths.        *)
(*  - null / undefined is the empty sequence; a present value x is <<x>>.  *)
(*  - A handler is an operator from a context record                       *)
(*    [eng, events, calls, exc] to the context after it ran; exc is the    *)
(*    exception in flight (a throwing observer), which skips the rest of   *)
(*    every enclosing function up to the nearest try/catch.                *)
(***************************************************************************)
EXTENDS Integers, Sequences, FiniteSets, TLC

VARIABLES
    engine,     \* the TripDetectionEngine singleton: its fields
    now,        \* Date.now()
    pos,        \* where the device really is (metres along the meridian)
    nSamples,   \* samples delivered so far
    nCommands,  \* startDetection / stopDetection calls made so far
    interval,   \* the sampling period of the location source (SpecRate), 0 if free
    lastOp,     \* the operation that ran last, with its input and pre-state
    events,     \* lifecycle events emitted by the last operation, in order
    calls,      \* observer invocations made by the last operation, in order
    service,    \* the LocationTrackingService singleton: its fields
    manager,    \* the IntegratedTripManager, once constructed: its fields
    runtime     \* the platform and the store: the location subscriptions
                \* that are live, the async calls in flight, the saved trips

vars == <<engine, now, pos, nSamples, nCommands, interval, lastOp, events, calls,
          service, manager, runtime>>

(***************************************************************************)
(* Bounds of the model                                                     *)
(***************************************************************************)
MaxSamples == 6
MaxRateSamples == 75
MaxWalkSamples == 12
MaxDither == 3
MaxCommands == 2

(***************************************************************************)
(* Program constants                                                       *)
(***************************************************************************)
tripStartMovementThreshold == 100
tripEndStationaryTime == 300000
significantMovementDistance == 500
stopDetectionRadius == 50
minimumTripDistance == 500
MovementBufferMax == 100
StopBufferMax == 20
CompletedTripsMax == 100
TransitionsMax == 50
MetricsWindow == 10
ConfirmMinElapsed == 30000
PotentialStartTimeout == 120000
KmScale == 1000
ConfPotential == 60
ConfActive == 85
\* a confidence beyond certainty
ConfForced_Over == ConfActive + 100
ConfForced == 80
ConfCompleted_Low == ConfForced - 5
ConfCompleted == 90

None == <<>>
Some(x) == <<x>>
IsSome(o) == Len(o) > 0
Val(o) == o[1]

Abs(x) == IF x < 0 THEN 0 - x ELSE x

\* Array.prototype.slice(-n)
LastN(s, n) == IF Len(s) <= n THEN s ELSE SubSeq(s, Len(s) - n + 1, Len(s))

\* a buffer that only grows
PushCapped_Unbounded(s, x, max) == Append(s, x)

\* push followed by `if (length > max) shift()`
PushCapped(s, x, max) ==
    LET t == Append(s, x) IN IF Len(t) > max THEN Tail(t) ELSE t

\* haversine distance of two points of the meridian, in metres
calculateDistance(p1, p2) == Abs(p2 - p1)

\* the `for (i = 1; i < points.length; i++) total += calculateDistance(...)` loops
\* (the sum of the segments from point a to point b, halving the range)
RECURSIVE PathBetween(_, _, _)
PathBetween(pts, a, b) ==
    IF b <= a THEN 0
    ELSE IF b = a + 1 THEN calculateDistance(pts[a].pos, pts[b].pos)
    ELSE LET m == (a + b) \div 2
         IN  PathBetween(pts, a, m) + PathBetween(pts, m, b)

PathLength(pts) == PathBetween(pts, 1, Len(pts))

(***************************************************************************)
(* Events and observers                                                    *)
(***************************************************************************)
\* An event as handed to notifyTripEventListeners: its type and the fields
\* of its payload that the engine's contract names ("" / -1 / <<>>: absent).
Ev(type) ==
    [type |-> type, tripId |-> -1, tripStatus |-> "", totalDistance |-> -1,
     confidence |-> -1, route |-> <<>>, duration |-> -1,
     previousState |-> "", newState |-> "", reason |-> ""]

\* listeners.forEach(l => { try { l(...) } catch { log } }): every listener
\* of the list is invoked; a throwing one is logged and the loop goes on.
NotifyList(c, slot, list, type) ==
    [c EXCEPT !.calls = @ \o [i \in 1..Len(list) |-> <<slot, i, type>>]]

\* `if (this.onX) this.onX(data)`: a direct callback field, invoked outside
\* any try/catch: an exception it throws propagates to the caller.
NotifyDirect(c, slot, cb, type) ==
    IF cb = "none" THEN c
    ELSE [c EXCEPT !.calls = Append(@, <<slot, 0, type>>),
                   !.exc = (cb = "throws")]

notifyTripStartListeners(c) ==
    LET c1 == NotifyDirect(c, "onTripStart", c.eng.onTripStart, "tripStarted")
    IN  IF c1.exc THEN c1
        ELSE NotifyList(c1, "tripStartListeners", c.eng.tripStartListeners, "tripStarted")

notifyTripEndListeners(c) ==
    LET c1 == NotifyDirect(c, "onTripEnd", c.eng.onTripEnd, "tripCompleted")
    IN  IF c1.exc THEN c1
        ELSE NotifyList(c1, "tripEndListeners", c.eng.tripEndListeners, "tripCompleted")

notifyTripUpdateListeners(c) ==
    LET c1 == NotifyDirect(c, "onTripUpdate", c.eng.onTripUpdate, "tripProgress")
    IN  IF c1.exc THEN c1
        ELSE NotifyList(c1, "tripUpdateListeners", c.eng.tripUpdateListeners, "tripProgress")

notifyStopDetectedListeners(c) ==
    LET c1 == NotifyDirect(c, "onStopDetected", c.eng.onStopDetected, "stopDetected")
    IN  IF c1.exc THEN c1
        ELSE NotifyList(c1, "stopDetectedListeners", c.eng.stopDetectedListeners, "stopDetected")

notifyTripEventListeners(c, ev, t) ==
    LET c1 == [c EXCEPT
                 !.eng.recentStateTransitions =
                     PushCapped(@, [type |-> ev.type, data |-> ev, timestamp |-> t],
                                TransitionsMax),
                 !.events = Append(@, ev)]
        c2 == NotifyList(c1, "tripEventListeners", c.eng.tripEventListeners, ev.type)
    IN  CASE ev.type = "tripStarted"   -> notifyTripStartListeners(c2)
          [] ev.type = "tripCompleted" -> notifyTripEndListeners(c2)
          [] ev.type = "tripProgress"  -> notifyTripUpdateListeners(c2)
          [] ev.type = "stopDetected"  -> notifyStopDetectedListeners(c2)
          [] OTHER                     -> c2

(***************************************************************************)
(* Trip metrics                                                            *)
(***************************************************************************)
\* a reset that forgets to drop the candidate
resetTripData_KeepTrip(e) ==
    [e EXCEPT !.tripStartTime = None,
              !.tripStartLocation = None,
              !.lastSignificantLocation = None,
              !.movementBuffer = <<>>,
              !.stopBuffer = <<>>]

resetTripData(e) ==
    [e EXCEPT !.currentTripData = None,
              !.tripStartTime = None,
              !.tripStartLocation = None,
              !.lastSignificantLocation = None,
              !.movementBuffer = <<>>,
              !.stopBuffer = <<>>]

\* in 1/KmScale km: (sum of the segments in metres) / 1000 km
calculateTripDistance(e) ==
    IF ~IsSome(e.currentTripData) \/ Len(Val(e.currentTripData).route) < 2 THEN 0
    ELSE PathLength(Val(e.currentTripData).route)

calculateStopDuration(e) ==
    IF Len(e.stopBuffer) = 0 THEN 0
    ELSE e.stopBuffer[Len(e.stopBuffer)].timestamp - e.stopBuffer[1].timestamp

\* the whole buffer instead of its last 10 points
recentPointsOf_All(buffer) == buffer

\* this.movementBuffer.slice(-10)
recentPointsOf(buffer) == LastN(buffer, MetricsWindow)

\* averageSpeed = timeSpan > 0 ? (totalDistance / (timeSpan / 1000)) * 3.6 : 0
\* and movementConsistency = totalDistance > 0 ? directDistance / totalDistance : 0
\* are kept as their numerators and denominators; see AverageSpeedGt and
\* MovementConsistencyGt.
\* A null sample, and what `{...locationData, processedAt}` is of it: an
\* entry without coordinates and without timestamp.
NullSample == [isNull |-> TRUE]
isNull(x) == "pos" \notin DOMAIN x
hasNull(points) == \E i \in 1..Len(points) : isNull(points[i])

\* With an entry without coordinates among the recent points, totalDistance
\* is NaN, which like -1 exceeds no threshold; timeSpan and directDistance
\* are NaN, and the speed and the consistency 0, if it is the first or the
\* last of them.
calculateMovementMetrics(e, currentLocation) ==
    IF Len(e.movementBuffer) < 2
    THEN [totalDistance |-> 0, timeSpan |-> 0, directDistance |-> 0,
          isStationary |-> TRUE, recentMovement |-> 0]
    ELSE IF hasNull(recentPointsOf(e.movementBuffer))
    THEN LET recentPoints == recentPointsOf(e.movementBuffer)
             first == recentPoints[1]
             last == recentPoints[Len(recentPoints)]
             ends == ~isNull(first) /\ ~isNull(last)
             recentMovement ==
                 calculateDistance(
                     IF IsSome(e.lastSignificantLocation)
                     THEN Val(e.lastSignificantLocation).pos ELSE currentLocation.pos,
                     currentLocation.pos)
         IN  [totalDistance |-> -1,
              timeSpan |-> IF ends THEN last.timestamp - first.timestamp ELSE 0,
              directDistance |-> IF ends THEN calculateDistance(first.pos, last.pos)
                                 ELSE 0,
              isStationary |-> recentMovement < stopDetectionRadius,
              recentMovement |-> recentMovement]
    ELSE
      LET recentPoints == recentPointsOf(e.movementBuffer)
          totalDistance == PathLength(recentPoints)
          timeSpan == recentPoints[Len(recentPoints)].timestamp - recentPoints[1].timestamp
          directDistance == calculateDistance(recentPoints[1].pos,
                                              recentPoints[Len(recentPoints)].pos)
          recentMovement ==
              calculateDistance(
                  IF IsSome(e.lastSignificantLocation)
                  THEN Val(e.lastSignificantLocation).pos ELSE currentLocation.pos,
                  currentLocation.pos)
      IN  [totalDistance |-> totalDistance, timeSpan |-> timeSpan,
           directDistance |-> directDistance,
           isStationary |-> recentMovement < stopDetectionRadius,
           recentMovement |-> recentMovement]

\* metrics.averageSpeed > kmh, that is totalDistance * 3600 > kmh * timeSpan
\* for a positive timeSpan; for integers x, y: x * 100 > y iff x > y \div 100,
\* which keeps the products within 32 bits.
AverageSpeedGt(m, kmh) ==
    m.timeSpan > 0 /\ m.totalDistance * 36 > (kmh * m.timeSpan) \div 100

\* metrics.movementConsistency > tenths / 10
MovementConsistencyGt(m, tenths) ==
    m.totalDistance > 0 /\ m.directDistance * 10 > tenths * m.totalDistance

(***************************************************************************)
(* The state machine                                                       *)
(***************************************************************************)
\* The payload fields every trip event spreads from currentTripData.
TripEv(type, trip) ==
    [Ev(type) EXCEPT !.tripId = trip.tripId, !.totalDistance = trip.totalDistance,
                     !.confidence = trip.confidence, !.route = trip.route,
                     !.duration = trip.duration]

\* the condition of analyzeForTripStart
tripStartCondition(m) ==
    /\ m.totalDistance > tripStartMovementThreshold
    /\ AverageSpeedGt(m, 5)
    /\ MovementConsistencyGt(m, 3)

analyzeForTripStart(c, location, m, t) ==
    IF tripStartCondition(m)
    THEN [c EXCEPT
            !.eng.currentTripState = "potential_start",
            !.eng.tripStartTime = Some(t),
            !.eng.tripStartLocation = Some(location),
            !.eng.currentTripData =
                Some([tripId |-> t, startTime |-> t, startLocation |-> location,
                      route |-> <<location>>, totalDistance |-> 0,
                      confidence |-> ConfPotential, duration |-> -1,
                      endTime |-> -1, endLocation |-> None])]
    ELSE c

\* the first condition of confirmTripStart
tripConfirmCondition(e, location, m, t) ==
    /\ calculateDistance(Val(e.tripStartLocation).pos, location.pos)
           > significantMovementDistance
    /\ AverageSpeedGt(m, 3)
    /\ t - Val(e.tripStartTime) > ConfirmMinElapsed

\* a time-out ten times too long
tripStartTimedOut_Late(e, t) == t - Val(e.tripStartTime) > 10 * PotentialStartTimeout

\* the else-if condition of confirmTripStart
tripStartTimedOut(e, t) == t - Val(e.tripStartTime) > PotentialStartTimeout

confirmTripStart(c, location, m, t) ==
    IF tripConfirmCondition(c.eng, location, m, t)
    THEN LET trip == [Val(c.eng.currentTripData) EXCEPT
                         !.confidence = ConfActive,
                         !.route = Append(@, location)]
             c1 == [c EXCEPT !.eng.currentTripState = "active",
                             !.eng.lastSignificantLocation = Some(location),
                             !.eng.currentTripData = Some(trip)]
         IN  notifyTripEventListeners(c1, TripEv("tripStarted", trip), t)
    ELSE IF tripStartTimedOut(c.eng, t)
    THEN LET ev == [Ev("tripDiscarded") EXCEPT
                       !.tripId = IF IsSome(c.eng.currentTripData)
                                  THEN Val(c.eng.currentTripData).tripId ELSE -1,
                       !.reason = "Failed to confirm sustained movement",
                       !.duration = t - Val(c.eng.tripStartTime)]
             c1 == notifyTripEventListeners(c, ev, t)
         IN  IF c1.exc THEN c1
             ELSE [c1 EXCEPT !.eng = resetTripData([@ EXCEPT !.currentTripState = "idle"])]
    ELSE c

\* any stop at all taken for the end of the trip
stopEndsTrip_AnyStop(stopDuration) == stopDuration > 0

\* `if (stopDuration > this.tripEndStationaryTime)` of handleStopDetection
stopEndsTrip(stopDuration) == stopDuration > tripEndStationaryTime

handleStopDetection(c, location, m, t) ==
    LET c1 == [c EXCEPT !.eng.stopBuffer =
                   PushCapped(@, [location |-> location, timestamp |-> t, metrics |-> m],
                              StopBufferMax)]
        stopDuration == calculateStopDuration(c1.eng)
        trip == Val(c1.eng.currentTripData)
        ev == [TripEv("stopDetected", trip) EXCEPT !.duration = stopDuration]
        c2 == notifyTripEventListeners(c1, ev, t)
    IN  IF c2.exc THEN c2
        ELSE IF stopEndsTrip(stopDuration)
        THEN [c2 EXCEPT !.eng.currentTripState = "potential_end"]
        ELSE c2

analyzeActiveTripMovement(c, location, m, t) ==
    LET trip0 == Val(c.eng.currentTripData)
        route == Append(trip0.route, location)
        c0 == [c EXCEPT !.eng.currentTripData = Some([trip0 EXCEPT !.route = route])]
        trip == [trip0 EXCEPT !.route = route,
                              !.totalDistance = calculateTripDistance(c0.eng),
                              !.duration = t - trip0.startTime]
        c1 == [c EXCEPT !.eng.currentTripData = Some(trip)]
    IN  IF m.isStationary
        THEN handleStopDetection(c1, location, m, t)
        ELSE LET c2 == [c1 EXCEPT !.eng.lastSignificantLocation = Some(location),
                                  !.eng.stopBuffer = <<>>]
             IN  notifyTripEventListeners(c2, TripEv("tripProgress", trip), t)

\* completedTrips.push(tripCompleteData) with the cap of 100
RecordCompleted(e, trip, status) ==
    [e EXCEPT !.completedTrips =
        PushCapped(@, [tripId |-> trip.tripId, tripStatus |-> status,
                       totalDistance |-> calculateTripDistance(e),
                       confidence |-> trip.confidence, route |-> trip.route,
                       startTime |-> trip.startTime, endTime |-> trip.endTime],
                   CompletedTripsMax)]

CompletedEv(e, trip, status) ==
    [TripEv("tripCompleted", trip) EXCEPT
        !.tripStatus = status, !.totalDistance = calculateTripDistance(e)]

\* async, but without an await of its own: it runs to its end (or to the
\* exception of a throwing observer) when called.
finalizeTripAnalysis(c, t) ==
    LET c2 == IF IsSome(c.eng.currentTripData)
              THEN LET trip == [Val(c.eng.currentTripData) EXCEPT
                                   !.endTime = t, !.confidence = ConfForced]
                       c1 == [c EXCEPT !.eng.currentTripData = Some(trip)]
                       c1r == [c1 EXCEPT !.eng = RecordCompleted(@, trip, "force_completed")]
                   IN  notifyTripEventListeners(
                           c1r, CompletedEv(c1.eng, trip, "force_completed"), t)
              ELSE c
    IN  IF c2.exc THEN c2
        ELSE [c2 EXCEPT !.eng = resetTripData([@ EXCEPT !.currentTripState = "idle"])]

\* the first condition of confirmTripEnd; totalDistance is in 1/KmScale km
tripEndCondition(e, stopDuration) ==
    /\ stopDuration * 2 > tripEndStationaryTime * 3
    /\ Val(e.currentTripData).totalDistance > minimumTripDistance * KmScale

\* a time-out that fires on any stop
tripEndTimedOut_Any(stopDuration) == stopDuration > 0

\* the else-if condition of confirmTripEnd
tripEndTimedOut(stopDuration) == stopDuration > tripEndStationaryTime * 3

\* a potential_end that keeps measuring, as the active state does
confirmTripEnd_Measuring(c, location, m, t) ==
    analyzeActiveTripMovement(c, location, m, t)

confirmTripEnd(c, location, m, t) ==
    LET stopDuration == calculateStopDuration(c.eng) IN
    IF tripEndCondition(c.eng, stopDuration)
    THEN LET trip == [Val(c.eng.currentTripData) EXCEPT
                         !.endTime = t, !.endLocation = Some(location),
                         !.confidence = ConfCompleted]
             c1 == [c EXCEPT !.eng.currentTripData = Some(trip)]
             c1r == [c1 EXCEPT !.eng = RecordCompleted(@, trip, "completed")]
             c2 == notifyTripEventListeners(c1r, CompletedEv(c1.eng, trip, "completed"), t)
         IN  IF c2.exc THEN c2
             ELSE [c2 EXCEPT !.eng = resetTripData([@ EXCEPT !.currentTripState = "idle"])]
    ELSE IF tripEndTimedOut(stopDuration)
    \* finalizeTripAnalysis() is not awaited: an exception in it rejects the
    \* promise it returns and does not reach this caller.
    THEN [finalizeTripAnalysis(c, t) EXCEPT !.exc = FALSE]
    ELSE c

\* Of a null sample, calculateMovementMetrics reads
\* `currentLocation.latitude` once the buffer holds two entries: a TypeError.
analyzeMovementPattern(c, newLocation, t) ==
    IF isNull(newLocation) /\ Len(c.eng.movementBuffer) >= 2
    THEN [c EXCEPT !.exc = TRUE] ELSE
    LET movementMetrics == calculateMovementMetrics(c.eng, newLocation)
        previousState == c.eng.currentTripState
        c1 == CASE previousState = "idle" ->
                     analyzeForTripStart(c, newLocation, movementMetrics, t)
                [] previousState = "potential_start" ->
                     confirmTripStart(c, newLocation, movementMetrics, t)
                [] previousState = "active" ->
                     analyzeActiveTripMovement(c, newLocation, movementMetrics, t)
                [] previousState = "potential_end" ->
                     confirmTripEnd(c, newLocation, movementMetrics, t)
                [] OTHER -> c
    IN  IF c1.exc THEN c1
        ELSE IF previousState # c1.eng.currentTripState
        THEN notifyTripEventListeners(
                 c1, [Ev("stateChanged") EXCEPT !.previousState = previousState,
                                                !.newState = c1.eng.currentTripState,
                                                !.reason = "Movement analysis"], t)
        ELSE c1

\* The try block.  updateActiveTripAnalysis is empty, so the
\* `if (state === 'active')` that calls it changes nothing.
tryProcessLocationUpdate(c, locationData, t) ==
    LET c1 == [c EXCEPT !.eng.movementBuffer =
                   PushCapped(@, IF isNull(locationData) THEN [processedAt |-> t]
                                 ELSE [pos |-> locationData.pos,
                                       timestamp |-> locationData.timestamp,
                                       processedAt |-> t], MovementBufferMax)]
    IN  analyzeMovementPattern(c1, locationData, t)

\* the catch swallows an exception in flight
processLocationUpdate(c, locationData, t) ==
    IF ~c.eng.isActiveState THEN c
    ELSE [tryProcessLocationUpdate(c, locationData, t) EXCEPT !.exc = FALSE]

\* a start that resets the engine also when detection is already running
startDetection_Restart(c, t) ==
    LET previousState == c.eng.currentTripState
        c1 == [c EXCEPT !.eng = resetTripData([@ EXCEPT !.isActiveState = TRUE,
                                                        !.currentTripState = "idle"])]
    IN  [notifyTripEventListeners(
             c1, [Ev("stateChanged") EXCEPT !.previousState = previousState,
                                            !.newState = "idle",
                                            !.reason = "Detection started"], t)
         EXCEPT !.exc = FALSE]

\* What startDetection resolves to.  Its try block cannot be left by an
\* exception (a stateChanged event goes to the generic listeners only, each
\* called in a try of its own), so the catch, which resolves to
\* { success: false }, is not reached.
startDetectionReply(c, t) ==
    IF c.eng.isActiveState
    THEN [success |-> TRUE, message |-> "Already active"]
    ELSE [success |-> TRUE, message |-> "Detection started successfully"]

startDetection(c, t) ==
    IF c.eng.isActiveState THEN c
    ELSE LET previousState == c.eng.currentTripState
             c1 == [c EXCEPT !.eng = resetTripData([@ EXCEPT !.isActiveState = TRUE,
                                                             !.currentTripState = "idle"])]
         IN  [notifyTripEventListeners(
                  c1, [Ev("stateChanged") EXCEPT !.previousState = previousState,
                                                 !.newState = "idle",
                                                 !.reason = "Detection started"], t)
              EXCEPT !.exc = FALSE]

\* a stopDetection that finalizes whatever candidate there is
stopFinalizes_AnyCandidate(e) == IsSome(e.currentTripData)

\* the guard of the finalization in stopDetection
stopFinalizes(e) == e.currentTripState = "active" /\ IsSome(e.currentTripData)

stopDetection(c, t) ==
    LET c1 == IF stopFinalizes(c.eng) THEN finalizeTripAnalysis(c, t) ELSE c
    IN  IF c1.exc THEN [c1 EXCEPT !.exc = FALSE]
        ELSE LET previousState == c1.eng.currentTripState
                 c2 == [c1 EXCEPT !.eng = resetTripData([@ EXCEPT !.isActiveState = FALSE,
                                                                  !.currentTripState = "idle"])]
             IN  [notifyTripEventListeners(
                      c2, [Ev("stateChanged") EXCEPT !.previousState = previousState,
                                                     !.newState = "idle",
                                                     !.reason = "Detection stopped"], t)
                  EXCEPT !.exc = FALSE]

(***************************************************************************)
(* The analysis of a finished route                                        *)
(***************************************************************************)
\* A timestamp of a route point: the number of milliseconds the location
\* source gives, or the text `new Date().toISOString()` makes of it.
Millis(t) == [isString |-> FALSE, ms |-> t]
toISOString(t) == [isString |-> TRUE, ms |-> t]

\* metres, that is, thousandths of the kilometres the code returns
calculateRouteDistance(points) ==
    IF Len(points) < 2 THEN 0 ELSE PathLength(points)

\* hundredths; `point.accuracy && ...` is false of accuracy 0
pointScore(point) ==
    IF point.accuracy # 0 /\ point.accuracy <= 50 THEN 100
    ELSE IF point.accuracy # 0 /\ point.accuracy <= 100 THEN 70
    ELSE 30

\* the scores of the points a to b, added up
RECURSIVE totalScore(_, _, _)
totalScore(points, a, b) ==
    IF b < a THEN 0
    ELSE IF b = a THEN pointScore(points[a])
    ELSE LET m == (a + b) \div 2
         IN  totalScore(points, a, m) + totalScore(points, m + 1, b)

\* hundredths, rounded down
calculateDataQuality(points) ==
    IF Len(points) = 0 THEN 0
    ELSE totalScore(points, 1, Len(points)) \div Len(points)

\* the score without the two rewards for dense sampling
calculateDetectionConfidence_NoDensity(points) ==
    LET distance == calculateRouteDistance(points)
    IN  50 + (IF distance > 5 * KmScale THEN 20 ELSE 0)
           + (IF distance > 20 * KmScale THEN 10 ELSE 0)

\* hundredths; pointDensity = points.length / Math.max(distance, 0.1)
calculateDetectionConfidence(points) ==
    LET distance == calculateRouteDistance(points)
        floored == IF distance > KmScale \div 10 THEN distance ELSE KmScale \div 10
        confidence ==
            50 + (IF distance > 5 * KmScale THEN 20 ELSE 0)
               + (IF distance > 20 * KmScale THEN 10 ELSE 0)
               + (IF Len(points) * KmScale > 10 * floored THEN 10 ELSE 0)
               + (IF Len(points) * KmScale > 20 * floored THEN 10 ELSE 0)
    IN  IF confidence < 95 THEN confidence ELSE 95

\* The speeds pushed in the loop of analyzeMovementPatternType, in
\* hundredths of a km/h; readings are taken on whole seconds.  The
\* difference of two timestamps is NaN unless both are numbers, and
\* NaN > 0 is false.
\* Their sum and their number are kept.
RECURSIVE segmentSpeeds(_, _, _)
segmentSpeeds(points, a, b) ==
    IF b <= a THEN [sum |-> 0, length |-> 0]
    ELSE IF b = a + 1
    THEN LET timeDiff == points[b].timestamp.ms - points[a].timestamp.ms
         IN  IF ~points[a].timestamp.isString /\ ~points[b].timestamp.isString
                /\ timeDiff > 0
             THEN [sum |-> (calculateDistance(points[a].pos, points[b].pos) * 360)
                               \div (timeDiff \div 1000),
                   length |-> 1]
             ELSE [sum |-> 0, length |-> 0]
    ELSE LET m == (a + b) \div 2
             l == segmentSpeeds(points, a, m)
             r == segmentSpeeds(points, m, b)
         IN  [sum |-> l.sum + r.sum, length |-> l.length + r.length]

\* avgSpeed = sum / speeds.length is NaN when no speed was pushed, and NaN
\* is below neither limit.
analyzeMovementPatternType(points) ==
    IF Len(points) < 3 THEN "unknown"
    ELSE LET speeds == segmentSpeeds(points, 1, Len(points))
         IN  IF speeds.length = 0 THEN "highway_driving"
             ELSE IF speeds.sum < 2000 * speeds.length THEN "city_driving"
             ELSE IF speeds.sum < 6000 * speeds.length THEN "suburban_driving"
             ELSE "highway_driving"

\* analyzeTripData: None when it throws; of the analysis, the fields
\* computed from the route
analyzeTripData(locationPoints) ==
    IF Len(locationPoints) < 2 THEN None
    ELSE Some([route |-> locationPoints,
               totalDistance |-> calculateRouteDistance(locationPoints),
               qualityScore |-> calculateDataQuality(locationPoints),
               confidence |-> calculateDetectionConfidence(locationPoints),
               movementPattern |-> analyzeMovementPatternType(locationPoints)])

(***************************************************************************)
(* The location service: quality filter and movement detection             *)
(***************************************************************************)
minimumAccuracy == 50
minimumMovementDistance == 5
maximumLocationAge == 30000
LocationHistoryMax == 50
\* |latitude| > 90 degrees, as metres of arc: 6371000 * pi / 2
LatitudeLimit == 10007543
LongitudeLimit == 180
DuplicateDistance == 1
\* no interval at all
DuplicateInterval_Zero == DuplicateDistance - 1
DuplicateInterval == 2000
MaxApparentSpeed == 200
ConsistencyPoints == 3
ConsistencyPath == 50
\* Speeds are in tenths of a metre per second: 0.5, 2 and 8 m/s.
WalkingSpeed == 5
RunningSpeed == 20
DrivingSpeed == 80

\* the object handleLocationUpdate builds from the raw reading at time t
LocationData(rawLocation, t) ==
    [pos |-> rawLocation.pos, lon |-> rawLocation.lon,
     accuracy |-> rawLocation.accuracy, speed |-> rawLocation.speed,
     timestamp |-> rawLocation.timestamp,
     age |-> t - rawLocation.timestamp, movement |-> None]

\* nothing is ever taken for walking
classifyMovement_NoWalking(speedMs) ==
    IF ~IsSome(speedMs) \/ Val(speedMs) < RunningSpeed THEN "stationary"
    ELSE IF Val(speedMs) < DrivingSpeed THEN "running"
    ELSE "driving"

\* `!speedMs` holds of an absent speed and of 0
classifyMovement(speedMs) ==
    IF ~IsSome(speedMs) \/ Val(speedMs) = 0 \/ Val(speedMs) < WalkingSpeed
    THEN "stationary"
    ELSE IF Val(speedMs) < RunningSpeed THEN "walking"
    ELSE IF Val(speedMs) < DrivingSpeed THEN "running"
    ELSE "driving"

\* no reading is ever taken for a repetition of the previous one
isDuplicate_Never(svc, locationData) == svc # svc

\* the last rule of passesQualityFilter
isDuplicate(svc, locationData) ==
    /\ IsSome(svc.lastKnownLocation)
    /\ calculateDistance(Val(svc.lastKnownLocation).pos, locationData.pos)
           < DuplicateDistance
    /\ locationData.timestamp - Val(svc.lastKnownLocation).timestamp
           < DuplicateInterval

\* a filter that lets every reading through
passesQualityFilter_All(svc, locationData) == svc = svc

passesQualityFilter(svc, locationData) ==
    IF locationData.accuracy > minimumAccuracy THEN FALSE
    ELSE IF locationData.age > maximumLocationAge THEN FALSE
    ELSE IF Abs(locationData.pos) > LatitudeLimit
            \/ Abs(locationData.lon) > LongitudeLimit THEN FALSE
    ELSE IF isDuplicate(svc, locationData) THEN FALSE
    ELSE TRUE

\* every movement taken for consistent
isMovementConsistent_Always(svc, newLocation) == svc = svc

\* pathEfficiency = directDistance / totalDistance is NaN when both are 0,
\* and NaN > 0.3 is false.
isMovementConsistent(svc, newLocation) ==
    IF Len(svc.locationHistory) < ConsistencyPoints THEN TRUE
    ELSE LET recentLocations ==
                 Append(LastN(svc.locationHistory, ConsistencyPoints), newLocation)
             totalDistance == PathLength(recentLocations)
             directDistance ==
                 calculateDistance(recentLocations[1].pos,
                                   recentLocations[Len(recentLocations)].pos)
         IN  \/ totalDistance > 0 /\ directDistance * 10 > 3 * totalDistance
             \/ totalDistance > ConsistencyPath

\* apparentSpeed = timeElapsedMinutes > 0 ? (distanceMoved / timeElapsedMinutes) * 60 : 0
\* compared with 200: distanceMoved * 3600000 <= 200 * timeElapsed, which for
\* integers is distanceMoved <= (200 * timeElapsed) \div 3600000.
reasonableSpeed(distanceMoved, timeElapsed) ==
    IF timeElapsed > 0
    THEN distanceMoved <= (MaxApparentSpeed * timeElapsed) \div 3600000
    ELSE TRUE

detectMovement(svc, newLocation) ==
    IF ~IsSome(svc.lastKnownLocation) THEN TRUE
    ELSE LET distanceMoved ==
                 calculateDistance(Val(svc.lastKnownLocation).pos, newLocation.pos)
             timeElapsed ==
                 newLocation.timestamp - Val(svc.lastKnownLocation).timestamp
         IN  /\ distanceMoved >= minimumMovementDistance
             /\ reasonableSpeed(distanceMoved, timeElapsed)
             /\ isMovementConsistent(svc, newLocation)

\* Location.watchPositionAsync: the platform starts a watcher, which lives
\* until its remove() is called; the watchers are numbered as they are made.
watchPositionAsync(c) ==
    [c EXCEPT !.rt.made = @ + 1, !.rt.live = @ \cup {c.rt.made + 1}]

\* subscription.remove()
remove(c, subscription) == [c EXCEPT !.rt.live = @ \ {subscription}]

\* startTracking when the permissions are granted and the platform makes
\* the subscription
startTracking(c) ==
    LET made == watchPositionAsync(c)
        c1 == [made EXCEPT !.svc.subscription = Some(made.rt.made),
                           !.svc.isActive = TRUE]
    IN  NotifyList(c1, "trackingStateListeners", c.svc.trackingStateListeners,
                   "tracking")

stopTracking(c) ==
    LET removed == IF IsSome(c.svc.subscription)
                   THEN remove(c, Val(c.svc.subscription)) ELSE c
        c1 == [removed EXCEPT !.svc.subscription = None, !.svc.isActive = FALSE,
                              !.svc.lastKnownLocation = None,
                              !.svc.locationHistory = <<>>]
    IN  NotifyList(c1, "trackingStateListeners", c.svc.trackingStateListeners,
                   "tracking")

\* An async call in flight: parked at an await whose promise the platform or
\* the store settles later.  fn is the function that awaits, at the await,
\* sub the watcher being made (0: none yet), caller who awaits the call.
Task(fn, at, caller) == [fn |-> fn, at |-> at, sub |-> 0, caller |-> caller]

Park(c, task) == [c EXCEPT !.rt.tasks = Append(@, task)]

Unpark(c, i) ==
    [c EXCEPT !.rt.tasks = SubSeq(@, 1, i - 1) \o SubSeq(@, i + 1, Len(@))]

\* an async function resolves to result
Returned(c, fn, result) ==
    [c EXCEPT !.ret = Append(@, [fn |-> fn, result |-> result])]

\* storage.saveCompletedTrip / storage.saveTrip took the record
Saved(c, source) == [c EXCEPT !.rt.saved = Append(@, source)]

NotReady == [locationService |-> FALSE, tripDetection |-> FALSE]

\* `if (this.locationService && this.locationService.isTracking())`
trackingStoppedIfActive(c) == IF c.svc.isActive THEN stopTracking(c) ELSE c

\* `if (this.tripDetectionEngine && this.tripDetectionEngine.isActive())`
detectionStoppedIfActive(c, t) ==
    IF c.eng.isActiveState THEN stopDetection(c, t) ELSE c

\* an emergency stop that keeps what was accumulated
emergencyStopAllServices_KeepData(c, t) ==
    [detectionStoppedIfActive(trackingStoppedIfActive(c), t)
     EXCEPT !.mgr = Some([Val(@) EXCEPT !.isIntegratedTracking = FALSE,
                                              !.servicesReady = NotReady,
                                              !.currentTripStartTime = None])]

\* Its awaits are of stopTracking and stopDetection, which await nothing
\* the platform settles.
emergencyStopAllServices(c, t) ==
    [detectionStoppedIfActive(trackingStoppedIfActive(c), t)
     EXCEPT !.mgr = Some([Val(@) EXCEPT !.isIntegratedTracking = FALSE,
                                              !.servicesReady = NotReady,
                                              !.currentTripStartTime = None,
                                              !.accumulatedTripData = <<>>])]

\* the catch of stopIntegratedTracking
stopIntegratedTrackingCatch(c, t) ==
    Returned(emergencyStopAllServices(c, t), "stopIntegratedTracking", FALSE)

\* the end of its try block: "Reset tracking state", return true
stopIntegratedTrackingEnd(c) ==
    Returned([c EXCEPT !.mgr = Some([Val(@) EXCEPT !.currentTripStartTime = None,
                                                  !.accumulatedTripData = <<>>])],
             "stopIntegratedTracking", TRUE)

\* saveBasicTripData, entered from the catch of processFinalTripData, which
\* rethrows when it is done.  It gives up with fewer than two points;
\* `this.currentTripStartTime.toISOString()` of null is a TypeError its own
\* catch logs; else it awaits storage.saveTrip.
saveBasicTripData(c, t) ==
    IF Len(Val(c.mgr).accumulatedTripData) < 2
       \/ ~IsSome(Val(c.mgr).currentTripStartTime)
    THEN stopIntegratedTrackingCatch(c, t)
    ELSE Park(c, Task("stopIntegratedTracking", "saveTrip", "client"))

\* processFinalTripData up to its await of the store: analyzeTripData
\* throws with fewer than two points (and on startTime.toISOString() of
\* null); createEnhancedTripRecord builds the record; saveToExistingSystem
\* awaits storage.saveCompletedTrip.
processFinalTripDataCall(c, t) ==
    IF IsSome(Val(c.mgr).currentTripStartTime)
       /\ IsSome(analyzeTripData(Val(c.mgr).accumulatedTripData))
    THEN Park(c, Task("stopIntegratedTracking", "saveCompletedTrip", "client"))
    ELSE saveBasicTripData(c, t)

\* "Stop detection engine first"
tripDetectionStopped(c, t) ==
    IF Val(c.mgr).servicesReady.tripDetection
    THEN [stopDetection(c, t) EXCEPT !.mgr =
             Some([Val(@) EXCEPT !.servicesReady.tripDetection = FALSE])]
    ELSE c

\* "Stop location service"
locationServiceStopped(c) ==
    IF Val(c.mgr).servicesReady.locationService
    THEN [stopTracking(c) EXCEPT !.mgr =
             Some([Val(@) EXCEPT !.servicesReady.locationService = FALSE])]
    ELSE c

\* "Process the complete trip if we have accumulated data"
finalTripProcessed(c, t) ==
    IF Len(Val(c.mgr).accumulatedTripData) > 0
    THEN processFinalTripDataCall(c, t)
    ELSE stopIntegratedTrackingEnd(c)

\* stopIntegratedTracking from its call to its first await of the store,
\* or to its end
stopIntegratedTrackingCall(c, t) ==
    IF ~Val(c.mgr).isIntegratedTracking
    THEN Returned(c, "stopIntegratedTracking", TRUE)
    ELSE finalTripProcessed(
             locationServiceStopped(
                 tripDetectionStopped(
                     [c EXCEPT !.mgr = Some([Val(@) EXCEPT
                                                !.isIntegratedTracking = FALSE])], t)),
             t)

\* IntegratedTripManager.handleServiceError: stopIntegratedTracking() is
\* called and not awaited.
handleServiceError(c, t) ==
    IF Val(c.mgr).isIntegratedTracking THEN stopIntegratedTrackingCall(c, t) ELSE c

\* LocationTrackingService.handleLocationError: onLocationError is the
\* manager's callback once a manager is constructed; the rest alerts.
handleLocationError(c, t) ==
    IF IsSome(c.mgr) THEN handleServiceError(c, t) ELSE c

\* the push onto accumulatedTripData and notifyExistingSystemOfProgress
accumulate(c, locationData, t) ==
    LET mgr == [Val(c.mgr) EXCEPT !.accumulatedTripData =
                   Append(@, [locationData EXCEPT !.timestamp = toISOString(t)])]
    IN  [c EXCEPT !.mgr = Some(mgr),
                  !.exc = Len(mgr.accumulatedTripData) > 1
                          /\ ~IsSome(mgr.currentTripStartTime)]

\* IntegratedTripManager.handleLocationUpdate, the service's onLocationUpdate
\* callback: it feeds the engine, then keeps the sample with the time of
\* its arrival; notifyExistingSystemOfProgress logs, reading
\* `this.currentTripStartTime.getTime()` once there are two samples: a
\* TypeError when the start time is null.
managerHandleLocationUpdate(c, locationData, t) ==
    IF ~IsSome(c.mgr) \/ ~Val(c.mgr).isIntegratedTracking THEN c
    ELSE IF ~Val(c.mgr).servicesReady.locationService
            \/ ~Val(c.mgr).servicesReady.tripDetection THEN c
    ELSE accumulate(processLocationUpdate(c, locationData, t), locationData, t)

\* The callbacks installed on the service in these specifications return
\* normally.
\* the listeners of the list, unless the direct callback threw
NotifyListed(c, slot, list, type) ==
    IF c.exc THEN c ELSE NotifyList(c, slot, list, type)

notifyLocationUpdateListeners(c, locationData, t) ==
    NotifyListed(
        IF c.svc.onLocationUpdate = "manager"
        THEN managerHandleLocationUpdate(
                 [c EXCEPT !.calls = Append(@, <<"onLocationUpdate", 0,
                                                 "locationUpdate">>)],
                 locationData, t)
        ELSE NotifyDirect(c, "onLocationUpdate", c.svc.onLocationUpdate,
                          "locationUpdate"),
        "locationUpdateListeners", c.svc.locationUpdateListeners, "locationUpdate")

notifyMovementDetectedListeners(c, locationData) ==
    LET c1 == NotifyDirect(c, "onMovementDetected", c.svc.onMovementDetected,
                           "movementDetected")
    IN  NotifyList(c1, "movementDetectedListeners", c.svc.movementDetectedListeners,
                   "movementDetected")

\* the end of handleLocationUpdate's try block, or its catch
movementNotified(c, movementDetected, located, t) ==
    IF c.exc THEN handleLocationError([c EXCEPT !.exc = FALSE], t)
    ELSE IF movementDetected THEN notifyMovementDetectedListeners(c, located)
    ELSE c

\* LocationTrackingService.handleLocationUpdate
handleLocationUpdate(c, rawLocation, t) ==
    LET locationData == LocationData(rawLocation, t) IN
    IF ~passesQualityFilter(c.svc, locationData) THEN c
    ELSE LET movementDetected == detectMovement(c.svc, locationData)
             last == c.svc.lastKnownLocation
             located ==
                 IF movementDetected /\ IsSome(last)
                 THEN [locationData EXCEPT !.movement =
                          Some([distanceMeters |->
                                    calculateDistance(Val(last).pos, locationData.pos),
                                timeDeltaMs |->
                                    locationData.timestamp - Val(last).timestamp,
                                \* hundredths of a km/h
                                speedKmh |->
                                    IF IsSome(locationData.speed)
                                       /\ Val(locationData.speed) # 0
                                    THEN Val(locationData.speed) * 36 ELSE 0,
                                movementType |->
                                    classifyMovement(locationData.speed)])]
                 ELSE locationData
             c1 == [c EXCEPT !.svc.locationHistory =
                                 PushCapped(@, located, LocationHistoryMax),
                             !.svc.lastKnownLocation = Some(located)]
         IN  movementNotified(notifyLocationUpdateListeners(c1, located, t),
                              movementDetected, located, t)

\* startTracking from its call to its first await: ensureLocationPermissions
startTrackingCall(c, caller) ==
    Park(c, Task("startTracking", "permissions", caller))

\* `!detectionSuccess`, of what startDetection resolves to: an object, which
\* is truthy whatever its fields.
isTruthy(object) == TRUE

\* what startDetection resolves to from its catch
startDetectionFailed == [success |-> FALSE, message |-> "error"]

\* startIntegratedTracking after its await of startDetection
detectionStarted(c, detectionSuccess, t) ==
    IF ~isTruthy(detectionSuccess)
    THEN Returned(
             emergencyStopAllServices(
                 [stopTracking(c) EXCEPT !.mgr = Some([Val(@) EXCEPT
                      !.servicesReady.locationService = FALSE])], t),
             "startIntegratedTracking", FALSE)
    ELSE Returned(
             [c EXCEPT !.mgr = Some([Val(@) EXCEPT
                            !.servicesReady.tripDetection = TRUE,
                            !.isIntegratedTracking = TRUE,
                            !.currentTripStartTime = Some(t),
                            !.accumulatedTripData = <<>>])],
             "startIntegratedTracking", TRUE)

\* startIntegratedTracking after its await of startTracking, to its end.
\* engineStart is "ok", or "throws" when startDetection's try block is left
\* by an exception, before its first assignment.
startIntegratedTrackingResume(c, t, locationSuccess, engineStart) ==
    IF ~locationSuccess
    THEN Returned(emergencyStopAllServices(c, t), "startIntegratedTracking", FALSE)
    ELSE LET c1 == [c EXCEPT !.mgr = Some([Val(@) EXCEPT
                                              !.servicesReady.locationService = TRUE])]
         IN  detectionStarted(
                 IF engineStart = "ok" THEN startDetection(c1, t) ELSE c1,
                 IF engineStart = "ok" THEN startDetectionReply(c1, t)
                 ELSE startDetectionFailed,
                 t)

\* startTracking resolves to result, and its caller goes on
startTrackingReturn(c, t, caller, result, engineStart) ==
    LET c1 == Returned(c, "startTracking", result)
    IN  IF caller = "manager"
        THEN startIntegratedTrackingResume(c1, t, result, engineStart)
        ELSE c1

\* ensureLocationPermissions resolves.  "denied": startTracking returns
\* false.  "granted": it calls Location.watchPositionAsync and awaits the
\* subscription.  "unavailable": granted, but watchPositionAsync throws; the
\* catch calls handleLocationError and returns false.
permissionsResolve(c, t, i, outcome) ==
    LET task == c.rt.tasks[i] IN
    CASE outcome = "granted" ->
           LET made == watchPositionAsync(c)
           IN  [made EXCEPT !.rt.tasks[i].at = "watchPositionAsync",
                            !.rt.tasks[i].sub = made.rt.made]
      [] outcome = "unavailable" ->
           startTrackingReturn(handleLocationError(Unpark(c, i), t), t,
                               task.caller, FALSE, "ok")
      [] OTHER ->
           startTrackingReturn(Unpark(c, i), t, task.caller, FALSE, "ok")

\* Location.watchPositionAsync resolves: startTracking keeps the
\* subscription, sets isActive, notifies and returns true.
watchResolve(c, t, i, engineStart) ==
    LET task == c.rt.tasks[i]
        c1 == [Unpark(c, i) EXCEPT !.svc.subscription = Some(task.sub),
                                   !.svc.isActive = TRUE]
        c2 == NotifyList(c1, "trackingStateListeners",
                         c.svc.trackingStateListeners, "tracking")
    IN  startTrackingReturn(c2, t, task.caller, TRUE, engineStart)

\* startIntegratedTracking from its call to its await of startTracking
startIntegratedTrackingCall(c) ==
    startTrackingCall([c EXCEPT !.mgr = Some([Val(@) EXCEPT
                                                 !.servicesReady = NotReady])],
                      "manager")

\* storage.saveCompletedTrip settles: saveToExistingSystem returns true, and
\* stopIntegratedTracking goes to its end, or false, and processFinalTripData
\* throws into its catch.
saveCompletedTripResolve(c, t, i, saved) ==
    IF saved
    THEN stopIntegratedTrackingEnd(
             Saved(Unpark(c, i), "integrated_automatic_detection"))
    ELSE saveBasicTripData(Unpark(c, i), t)

\* storage.saveTrip settles: saveBasicTripData returns, processFinalTripData
\* rethrows
saveTripResolve(c, t, i, saved) ==
    stopIntegratedTrackingCatch(
        IF saved THEN Saved(Unpark(c, i), "integrated_basic_fallback")
        ELSE Unpark(c, i), t)

\* The call when the permissions are granted, the subscription is made and
\* nothing else runs meanwhile.
startIntegratedTracking(c, t) ==
    LET c1 == startTracking(c)
        c2 == startDetection(c1, t)
    IN  [c2 EXCEPT !.mgr = Some([isIntegratedTracking |-> TRUE,
                                 servicesReady |-> [locationService |-> TRUE,
                                                    tripDetection |-> TRUE],
                                 currentTripStartTime |-> Some(t),
                                 accumulatedTripData |-> <<>>])]

\* processFinalTripData: the analysis of the accumulated samples, which goes
\* to the store, outside this model.
processFinalTripData(mgr) ==
    IF IsSome(mgr) /\ Val(mgr).isIntegratedTracking
       /\ Len(Val(mgr).accumulatedTripData) > 0
    THEN analyzeTripData(Val(mgr).accumulatedTripData)
    ELSE None

stopIntegratedTracking(c, t) ==
    IF ~Val(c.mgr).isIntegratedTracking THEN c
    ELSE LET c1 == IF Val(c.mgr).servicesReady.tripDetection
                   THEN stopDetection(c, t) ELSE c
             c2 == IF Val(c.mgr).servicesReady.locationService
                   THEN stopTracking(c1) ELSE c1
         IN  [c2 EXCEPT !.mgr = Some([isIntegratedTracking |-> FALSE,
                                      servicesReady |-> [locationService |-> FALSE,
                                                         tripDetection |-> FALSE],
                                      currentTripStartTime |-> None,
                                      accumulatedTripData |-> <<>>])]

\* Listener management.  A listener is known by its reference; "none"
\* stands for a value that is not a function.
isFunction(listener) == listener # "none"
includes(list, listener) == \E i \in 1..Len(list) : list[i] = listener

\* the first index of the listener, 0 for JavaScript's -1
indexOf(list, listener) ==
    IF includes(list, listener)
    THEN CHOOSE i \in 1..Len(list) :
             list[i] = listener /\ \A j \in 1..(i - 1) : list[j] # listener
    ELSE 0

\* list.splice(index, 1)
splice(list, index) ==
    SubSeq(list, 1, index - 1) \o SubSeq(list, index + 1, Len(list))

\* a registration that does not look for the listener in the list
addListener_Again(list, listener) ==
    IF isFunction(listener) THEN Append(list, listener) ELSE list

\* the body the three add...Listener methods share
addListener(list, listener) ==
    IF isFunction(listener) /\ ~includes(list, listener)
    THEN Append(list, listener) ELSE list

\* the body the three remove...Listener methods share
removeListener(list, listener) ==
    LET index == indexOf(list, listener)
    IN  IF index > 0 THEN splice(list, index) ELSE list

addLocationUpdateListener(c, listener) ==
    [c EXCEPT !.svc.locationUpdateListeners = addListener(@, listener)]
removeLocationUpdateListener(c, listener) ==
    [c EXCEPT !.svc.locationUpdateListeners = removeListener(@, listener)]
addTrackingStateListener(c, listener) ==
    [c EXCEPT !.svc.trackingStateListeners = addListener(@, listener)]
removeTrackingStateListener(c, listener) ==
    [c EXCEPT !.svc.trackingStateListeners = removeListener(@, listener)]
addTripEventListener(c, listener) ==
    [c EXCEPT !.eng.tripEventListeners = addListener(@, listener)]
removeTripEventListener(c, listener) ==
    [c EXCEPT !.eng.tripEventListeners = removeListener(@, listener)]

NewService ==
    [isActive |-> FALSE, subscription |-> None,
     lastKnownLocation |-> None, locationHistory |-> <<>>,
     onLocationUpdate |-> "none", onMovementDetected |-> "none",
     locationUpdateListeners |-> <<>>, trackingStateListeners |-> <<>>,
     movementDetectedListeners |-> <<>>]

\* Nothing is watched, nothing is in flight, nothing is saved.
NewRuntime ==
    [live |-> {}, made |-> 0, tasks |-> <<>>, saved |-> <<>>, lastCall |-> "none"]

\* new IntegratedTripManager(): its fields, before setupEventHandlers
NewManager ==
    Some([isIntegratedTracking |-> FALSE,
          servicesReady |-> [locationService |-> FALSE, tripDetection |-> FALSE],
          currentTripStartTime |-> None,
          accumulatedTripData |-> <<>>])

(***************************************************************************)
(* The engine after construction, and its operations                       *)
(***************************************************************************)
NewEngine ==
    [isActiveState |-> FALSE, currentTripState |-> "idle",
     tripStartTime |-> None, tripStartLocation |-> None,
     lastSignificantLocation |-> None,
     movementBuffer |-> <<>>, stopBuffer |-> <<>>,
     onTripStart |-> "none", onTripEnd |-> "none",
     onTripUpdate |-> "none", onStopDetected |-> "none",
     tripEventListeners |-> <<>>, tripStartListeners |-> <<>>,
     tripEndListeners |-> <<>>, tripUpdateListeners |-> <<>>,
     stopDetectedListeners |-> <<>>,
     currentTripData |-> None, completedTrips |-> <<>>,
     recentStateTransitions |-> <<>>]

Ctx(e) == [eng |-> e, events |-> <<>>, calls |-> <<>>, exc |-> FALSE]

\* Observers a client installs: the four callback fields (as
\* IntegratedTripManager.setupEventHandlers assigns them), the generic
\* listener list (addTripEventListener) and the per-event listener arrays.
\* "ok" returns normally, "throws" throws when invoked.
Observers(cb, generic, specific) ==
    [onTripStart |-> cb[1], onTripEnd |-> cb[2], onTripUpdate |-> cb[3],
     onStopDetected |-> cb[4], generic |-> generic, specific |-> specific]

QuietObservers ==
    { Observers(<<"ok", "ok", "ok", "ok">>, <<"ok">>, <<"ok">>),
      Observers(<<"none", "none", "none", "none">>, <<"ok", "ok">>, <<>>) }

FaultyObservers ==
    { Observers(cb, g, s) :
        cb \in { <<"throws", "ok", "ok", "ok">>, <<"ok", "throws", "ok", "ok">>,
                 <<"ok", "ok", "throws", "ok">>, <<"ok", "ok", "ok", "throws">>,
                 <<"ok", "ok", "ok", "ok">> },
        g \in { <<"ok">>, <<"throws", "ok">> },
        s \in { <<"ok">>, <<"throws", "ok">> } }

Frame(op, loc) == lastOp' = [op |-> op, location |-> loc]

RegisterObservers(o) ==
    /\ nCommands = 0
    /\ engine.tripEventListeners = <<>>
    /\ engine' = [engine EXCEPT
                    !.onTripStart = o.onTripStart, !.onTripEnd = o.onTripEnd,
                    !.onTripUpdate = o.onTripUpdate,
                    !.onStopDetected = o.onStopDetected,
                    !.tripEventListeners = o.generic,
                    !.tripStartListeners = o.specific,
                    !.tripEndListeners = o.specific,
                    !.tripUpdateListeners = o.specific,
                    !.stopDetectedListeners = o.specific]
    /\ events' = <<>> /\ calls' = <<>>
    /\ Frame("registerObservers", None)
    /\ UNCHANGED <<now, pos, nSamples, nCommands, interval, service, manager, runtime>>

Run(c) ==
    /\ engine' = c.eng
    /\ events' = c.events
    /\ calls' = c.calls

StartDetection ==
    /\ nCommands < MaxCommands
    /\ engine.tripEventListeners # <<>>
    /\ Run(startDetection(Ctx(engine), now))
    /\ nCommands' = nCommands + 1
    /\ Frame("startDetection", None)
    /\ UNCHANGED <<now, pos, nSamples, interval, service, manager, runtime>>

StopDetection ==
    /\ nCommands < MaxCommands
    /\ engine.tripEventListeners # <<>>
    /\ Run(stopDetection(Ctx(engine), now))
    /\ nCommands' = nCommands + 1
    /\ Frame("stopDetection", None)
    /\ UNCHANGED <<now, pos, nSamples, interval, service, manager, runtime>>

\* The location source, started along with the engine, delivers the sample
\* taken step.dt ms after the last one, step.dpos metres further north; it is
\* processed as it is taken.
\* What a call of processLocationUpdate leaves for the observer: the
\* sample, whether its try block was left by an exception, and whether the
\* call itself was.
Processed(location, locationData, t) ==
    [op |-> "processLocationUpdate", location |-> location,
     failed |-> engine.isActiveState
                    /\ tryProcessLocationUpdate(Ctx(engine), locationData, t).exc,
     threw |-> processLocationUpdate(Ctx(engine), locationData, t).exc]

ProcessLocationUpdate(step, max) ==
    /\ nSamples < max
    /\ nCommands > 0
    /\ LET t == now + step.dt
           loc == [pos |-> pos + step.dpos, timestamp |-> t]
       IN  /\ Run(processLocationUpdate(Ctx(engine), loc, t))
           /\ now' = t
           /\ pos' = loc.pos
           /\ lastOp' = Processed(Some(loc), loc, t)
    /\ nSamples' = nSamples + 1
    /\ UNCHANGED <<nCommands, interval, service, manager, runtime>>

\* processLocationUpdate(null), ten seconds after the last sample
ProcessNullUpdate(max) ==
    /\ nSamples < max
    /\ nCommands > 0
    /\ LET t == now + 10000
       IN  /\ Run(processLocationUpdate(Ctx(engine), NullSample, t))
           /\ now' = t
           /\ lastOp' = Processed(None, NullSample, t)
    /\ nSamples' = nSamples + 1
    /\ UNCHANGED <<pos, nCommands, interval, service, manager, runtime>>

Step(dt, dpos) == [dt |-> dt, dpos |-> dpos]

\* What the location source delivers next in the lifecycle scenarios: the
\* vehicle's behaviours that matter in the state the engine reports
\* (getDetectionStatus().currentState).
LifecycleSteps(e) ==
    CASE ~e.isActiveState ->
           { Step(10000, 150) }
      [] e.currentTripState = "idle" ->
           { Step(10000, 150),       \* driving, 54 km/h
             Step(10000, 60),        \* rolling, 21.6 km/h
             Step(10000, -60),       \* and back again
             Step(460000, 150) }     \* 150 m in 7 min 40 s
      [] e.currentTripState = "potential_start" ->
           { Step(10000, 150),
             Step(30000, 600),       \* exactly 30 s later
             Step(35000, 600),
             Step(125000, 0),        \* no movement for 125 s
             Step(35000, 600000) }   \* a 600 km jump
      [] e.currentTripState = "active" ->
           { Step(10000, 150),
             Step(125000, 0),        \* parked: 2 min 5 s
             Step(310000, 0),        \* parked: 5 min 10 s
             Step(460000, 0),        \* parked: 7 min 40 s
             Step(1000000, 0) }      \* parked: 16 min 40 s
      [] OTHER ->
           { Step(125000, 0),
             Step(1000000, 0),
             Step(10000, 150) }      \* driving again

BasePos == 1000

Init ==
    /\ engine = NewEngine
    /\ now = 0
    /\ pos = BasePos
    /\ nSamples = 0
    /\ nCommands = 0
    /\ interval = 0
    /\ lastOp = [op |-> "new", location |-> None]
    /\ events = <<>>
    /\ calls = <<>>
    /\ service = NewService
    /\ manager = None
    /\ runtime = NewRuntime

Next ==
    \/ \E o \in QuietObservers : RegisterObservers(o)
    \/ StartDetection
    \/ StopDetection
    \/ \E step \in LifecycleSteps(engine) : ProcessLocationUpdate(step, MaxSamples)

Spec == Init /\ [][Next]_vars

\* The engine and the clock: samples come ten seconds after one another
\* or after a pause (of 130 s with a candidate waiting for confirmation, of
\* 310 s or 1000 s during a trip), during which time passes without any
\* code of the engine running (the engine sets no timer).
MaxClockSamples == 6

Waits(e) ==
    IF e.currentTripState = "potential_start" THEN {130000}
    ELSE {310000, 1000000}

ClockSteps(e) ==
    CASE ~e.isActiveState \/ e.currentTripState = "idle" ->
           { Step(10000, 150) }
      [] e.currentTripState = "potential_start" ->
           { Step(10000, 150), Step(35000, 600) }
      [] OTHER ->
           { Step(10000, 0), Step(10000, 150) }

Tick(dt) ==
    /\ engine.isActiveState
    /\ engine.currentTripState # "idle"
    /\ lastOp.op # "tick"
    /\ nSamples < MaxClockSamples
    /\ now' = now + dt
    /\ Frame("tick", None)
    /\ UNCHANGED <<engine, pos, nSamples, nCommands, interval, events, calls,
                   service, manager, runtime>>

NextClock ==
    \/ \E o \in QuietObservers : RegisterObservers(o)
    \/ StartDetection
    \/ StopDetection
    \/ \E step \in ClockSteps(engine) : ProcessLocationUpdate(step, MaxClockSamples)
    \/ \E dt \in Waits(engine) : Tick(dt)

SpecClock == Init /\ [][NextClock]_vars

\* The lifecycle scenarios with a caller that now and then passes null.
MaxBadSamples == 4

NextBad ==
    \/ \E o \in QuietObservers : RegisterObservers(o)
    \/ StartDetection
    \/ StopDetection
    \/ \E step \in LifecycleSteps(engine) : ProcessLocationUpdate(step, MaxBadSamples)
    \/ ProcessNullUpdate(MaxBadSamples)

SpecBad == Init /\ [][NextBad]_vars

(***************************************************************************)
(* A location source with a fixed sampling period: the vehicle cruises at  *)
(* 20 m/s until the trip is confirmed, then stands still.                  *)
(***************************************************************************)
Intervals == {5000, 10000, 15000, 20000, 60000}

RateSteps(e) ==
    IF e.isActiveState /\ e.currentTripState \in {"idle", "potential_start"}
    THEN { Step(interval, (interval \div 1000) * 20) }
    ELSE { Step(interval, 0) }

InitRate ==
    /\ engine = NewEngine
    /\ now = 0
    /\ pos = BasePos
    /\ nSamples = 0
    /\ nCommands = 0
    /\ interval \in Intervals
    /\ lastOp = [op |-> "new", location |-> None]
    /\ events = <<>>
    /\ calls = <<>>
    /\ service = NewService
    /\ manager = None
    /\ runtime = NewRuntime

NextRate ==
    \/ \E o \in QuietObservers : RegisterObservers(o)
    \/ StartDetection
    \/ StopDetection
    \/ \E step \in RateSteps(engine) : ProcessLocationUpdate(step, MaxRateSamples)

SpecRate == InitRate /\ [][NextRate]_vars

(***************************************************************************)
(* A pedestrian while the engine is idle: the first MaxDither samples are  *)
(* short steps, 60 m back, or a slow 110 m; after them steady short steps  *)
(* every 5 s; a car ride at any moment starts a candidate.                 *)
(***************************************************************************)
WalkSteps(e, n) ==
    CASE e.isActiveState /\ e.currentTripState = "idle" /\ n < MaxDither ->
           { Step(5000, 10), Step(10000, -60), Step(80000, 110), Step(10000, 150) }
      [] e.isActiveState /\ e.currentTripState = "idle" ->
           { Step(5000, 10), Step(10000, 150) }
      [] OTHER -> {}

NextWalk ==
    \/ \E o \in QuietObservers : RegisterObservers(o)
    \/ StartDetection
    \/ StopDetection
    \/ \E step \in WalkSteps(engine, nSamples) :
           ProcessLocationUpdate(step, MaxWalkSamples)

SpecWalk == Init /\ [][NextWalk]_vars

(***************************************************************************)
(* The lifecycle scenarios with observers that may throw.                  *)
(***************************************************************************)
NextObs ==
    \/ \E o \in FaultyObservers : RegisterObservers(o)
    \/ StartDetection
    \/ StopDetection
    \/ \E step \in LifecycleSteps(engine) : ProcessLocationUpdate(step, MaxSamples)

SpecObs == Init /\ [][NextObs]_vars

(***************************************************************************)
(* The whole pipeline: the location source delivers raw readings to the    *)
(* service, whose onLocationUpdate callback is the manager, which feeds    *)
(* the engine.  Init is the state after `new IntegratedTripManager()`      *)
(* (setupEventHandlers has run) with one listener on each list.            *)
(***************************************************************************)
MaxPipeSamples == 5
MaxFilterSamples == 3

PipeCtx ==
    [svc |-> service, mgr |-> manager, eng |-> engine, rt |-> runtime,
     ret |-> <<>>,
     events |-> <<>>, calls |-> <<>>, exc |-> FALSE]

RunPipe(c) ==
    /\ Run(c)
    /\ service' = c.svc
    /\ manager' = c.mgr
    /\ runtime' = c.rt

\* startIntegratedTracking, called while tracking is off
StartIntegratedTracking ==
    /\ nCommands < MaxCommands
    /\ IsSome(manager) /\ ~Val(manager).isIntegratedTracking
    /\ RunPipe(startIntegratedTracking(PipeCtx, now))
    /\ nCommands' = nCommands + 1
    /\ Frame("startIntegratedTracking", None)
    /\ UNCHANGED <<now, pos, nSamples, interval>>

StopIntegratedTracking ==
    /\ nCommands < MaxCommands
    /\ IsSome(manager) /\ Val(manager).isIntegratedTracking
    /\ RunPipe(stopIntegratedTracking(PipeCtx, now))
    /\ nCommands' = nCommands + 1
    /\ lastOp' = [op |-> "stopIntegratedTracking", location |-> None,
                  route |-> Val(manager).accumulatedTripData,
                  analysis |-> processFinalTripData(manager)]
    /\ UNCHANGED <<now, pos, nSamples, interval>>

\* A reading of the location source: taken step.dt ms after the last one,
\* the device step.dpos metres further north, reported with the given
\* accuracy and longitude, step.lag ms after its capture, at the device's
\* position or, when the receiver glitches, at latitude step.at.
RawStep(dt, dpos, accuracy, lag, lon, at) ==
    [dt |-> dt, dpos |-> dpos, accuracy |-> accuracy, lag |-> lag,
     lon |-> lon, at |-> at, speed |-> None]

Fix(dt, dpos) == RawStep(dt, dpos, 30, 0, 0, None)

\* the same reading, the receiver reporting the speed (tenths of a m/s)
AtSpeed(step, speed) == [step EXCEPT !.speed = Some(speed)]

\* The subscription's callback: Location.watchPositionAsync delivers while
\* the subscription exists.
HandleLocationUpdate(step, max) ==
    /\ nSamples < max
    /\ runtime.live # {}
    /\ LET t == now + step.dt
           raw == [pos |-> IF IsSome(step.at) THEN Val(step.at) ELSE pos + step.dpos,
                   lon |-> step.lon, accuracy |-> step.accuracy,
                   speed |-> step.speed, timestamp |-> t - step.lag]
           data == LocationData(raw, t)
           passed == passesQualityFilter(service, data)
       IN  /\ RunPipe(handleLocationUpdate(PipeCtx, raw, t))
           /\ now' = t
           /\ pos' = pos + step.dpos
           /\ lastOp' = [op |-> "handleLocationUpdate", location |-> Some(raw),
                         data |-> data, passed |-> passed,
                         moved |-> passed /\ detectMovement(service, data),
                         consistent |-> isMovementConsistent(service, data)]
    /\ nSamples' = nSamples + 1
    /\ UNCHANGED <<nCommands, interval>>

\* Every kind of reading the quality filter distinguishes.
FilterSteps ==
    { Fix(10000, 100),                          \* 36 km/h
      Fix(100000, 5),                           \* 180 m/h
      Fix(5000, 10),                            \* walking pace
      Fix(5000, 2),                             \* less than 5 m
      Fix(2000, 0),                             \* same place, 2 s later
      Fix(1999, 0),                             \* same place, just before
      Fix(0, 0),                                \* the same reading again
      RawStep(1000, 0, 30, 1000, 0, None),      \* and again, 1 s later
      Fix(0, 1000),                             \* 1 km in no time
      RawStep(5000, 10, 30, 15000, 0, None),    \* captured 15 s ago
      RawStep(5000, 10, 80, 0, 0, None),        \* inaccurate
      RawStep(5000, 10, 50, 0, 0, None),        \* accuracy at the limit
      RawStep(5000, 10, 30, 30000, 0, None),    \* age at the limit
      RawStep(5000, 10, 30, 30001, 0, None),    \* stale
      RawStep(5000, 10, 30, 0, 360, None),      \* longitude out of range
      RawStep(5000, 0, 30, 0, 0, Some(LatitudeLimit)),
      RawStep(5000, 0, 30, 0, 0, Some(LatitudeLimit + 1)) }

\* The movements the movement detection and the engine distinguish.
PipeSteps ==
    { Fix(10000, 150),                          \* driving, 54 km/h
      Fix(35000, 600),
      Fix(10000, -150),                         \* and back
      Fix(5000, 10),
      Fix(5000, -10),
      Fix(2000, 0),                             \* standing
      RawStep(5000, 100, 30, 15000, 0, None) }  \* captured 15 s ago

InitPipe ==
    /\ engine = [NewEngine EXCEPT
                    !.onTripStart = "ok", !.onTripEnd = "ok",
                    !.onTripUpdate = "ok", !.onStopDetected = "ok",
                    !.tripEventListeners = <<"ok">>]
    /\ service = [NewService EXCEPT
                    !.onLocationUpdate = "manager",
                    !.locationUpdateListeners = <<"ok">>,
                    !.trackingStateListeners = <<"ok">>,
                    !.movementDetectedListeners = <<"ok">>]
    /\ manager = NewManager
    /\ runtime = NewRuntime
    /\ now = 0
    /\ pos = BasePos
    /\ nSamples = 0
    /\ nCommands = 0
    /\ interval = 0
    /\ lastOp = [op |-> "new", location |-> None]
    /\ events = <<>>
    /\ calls = <<>>

NextPipe ==
    \/ StartIntegratedTracking
    \/ StopIntegratedTracking
    \/ \E step \in PipeSteps : HandleLocationUpdate(step, MaxPipeSamples)

SpecPipe == InitPipe /\ [][NextPipe]_vars

NextFilter ==
    \/ StartIntegratedTracking
    \/ StopIntegratedTracking
    \/ \E step \in FilterSteps : HandleLocationUpdate(step, MaxFilterSamples)

SpecFilter == InitPipe /\ [][NextFilter]_vars

\* A slow advance, the receiver reporting no speed or one on either side of
\* each limit of the classification.
ReportedSpeeds ==
    { -10, 0, WalkingSpeed - 1, WalkingSpeed, RunningSpeed - 1, RunningSpeed,
      DrivingSpeed - 1, DrivingSpeed, 300 }

ClassifySteps ==
    { Fix(100000, 5) } \cup { AtSpeed(Fix(100000, 5), s) : s \in ReportedSpeeds }

NextClassify ==
    \/ StartIntegratedTracking
    \/ StopIntegratedTracking
    \/ \E step \in ClassifySteps : HandleLocationUpdate(step, MaxFilterSamples)

SpecClassify == InitPipe /\ [][NextClassify]_vars

\* Components that register and unregister listeners while the manager
\* tracks: two functions and a value that is no function.
MaxListenSamples == 2
Functions == {"ok", "throws"}
Listeners == Functions \cup {"none"}
ListenSteps == { Fix(10000, 150), Fix(1000, 0) }

\* a call of one of the six static methods; it emits nothing
Manage(op, c, listener) ==
    /\ engine' = c.eng
    /\ service' = c.svc
    /\ events' = <<>>
    /\ calls' = <<>>
    /\ lastOp' = [op |-> op, location |-> None, listener |-> listener]
    /\ UNCHANGED <<now, pos, nSamples, nCommands, interval, manager, runtime>>

AddLocationUpdateListener(listener) ==
    Manage("addLocationUpdateListener",
           addLocationUpdateListener(PipeCtx, listener), listener)
RemoveLocationUpdateListener(listener) ==
    Manage("removeLocationUpdateListener",
           removeLocationUpdateListener(PipeCtx, listener), listener)
AddTrackingStateListener(listener) ==
    Manage("addTrackingStateListener",
           addTrackingStateListener(PipeCtx, listener), listener)
RemoveTrackingStateListener(listener) ==
    Manage("removeTrackingStateListener",
           removeTrackingStateListener(PipeCtx, listener), listener)
AddTripEventListener(listener) ==
    Manage("addTripEventListener",
           addTripEventListener(PipeCtx, listener), listener)
RemoveTripEventListener(listener) ==
    Manage("removeTripEventListener",
           removeTripEventListener(PipeCtx, listener), listener)

NextListen ==
    \/ StartIntegratedTracking
    \/ StopIntegratedTracking
    \/ \E step \in ListenSteps : HandleLocationUpdate(step, MaxListenSamples)
    \/ \E listener \in Listeners : AddLocationUpdateListener(listener)
    \/ \E listener \in Functions : RemoveLocationUpdateListener(listener)
    \/ \E listener \in Listeners : AddTrackingStateListener(listener)
    \/ \E listener \in Functions : RemoveTrackingStateListener(listener)
    \/ \E listener \in Listeners : AddTripEventListener(listener)
    \/ \E listener \in Functions : RemoveTripEventListener(listener)

SpecListen == InitPipe /\ [][NextListen]_vars

\* The analysis of routes: those the manager accumulates while tracking,
\* and, handed to analyzeTripData as they are, evenly spaced routes of up
\* to MaxRoutePoints readings.
MaxAnalyzeSamples == 4
MaxRoutePoints == 402

AnalyzeSteps ==
    { Fix(10000, 150),                          \* 54 km/h
      Fix(35000, 600),
      Fix(10000, 50),                           \* 18 km/h
      RawStep(10000, 50, 0, 0, 0, None) }       \* reported accuracy 0

RouteLengths == { 1, 2, 3, 50, 51, 100, 101, 201, MaxRoutePoints }
RouteLegs == { 0, 50, 100, 2500, 5001, 10000, 10001 }
RouteIntervals == { 0, 3000, 9000, 10000 }
RouteAccuracies ==
    { <<30>>, <<0>>, <<50, 51>>, <<100, 101>>, <<50, 80, 150>> }

Route(n, leg, dt, accs) ==
    [i \in 1..n |->
        [pos |-> BasePos + (i - 1) * leg, lon |-> 0,
         accuracy |-> accs[((i - 1) % Len(accs)) + 1],
         timestamp |-> Millis((i - 1) * dt)]]

AnalyzeTripData(locationPoints) ==
    /\ lastOp.op = "new"
    /\ lastOp' = [op |-> "analyzeTripData", location |-> None,
                  route |-> locationPoints,
                  analysis |-> analyzeTripData(locationPoints)]
    /\ UNCHANGED <<engine, now, pos, nSamples, nCommands, interval, events,
                   calls, service, manager, runtime>>

NextAnalyze ==
    \/ StartIntegratedTracking
    \/ StopIntegratedTracking
    \/ \E step \in AnalyzeSteps : HandleLocationUpdate(step, MaxAnalyzeSamples)
    \/ \E n \in RouteLengths, leg \in RouteLegs, dt \in RouteIntervals,
          accs \in RouteAccuracies : AnalyzeTripData(Route(n, leg, dt, accs))

SpecAnalyze == InitPipe /\ [][NextAnalyze]_vars

\* A long recording at one reading every ten seconds: the vehicle drives
\* off at 72 km/h and, once the trip is confirmed, stands still.
MaxLongSamples == 105

LongSteps ==
    IF engine.currentTripState \in {"idle", "potential_start"}
    THEN { Fix(10000, 200) }
    ELSE { Fix(10000, 0) }

NextLong ==
    \/ StartIntegratedTracking
    \/ StopIntegratedTracking
    \/ \E step \in LongSteps : HandleLocationUpdate(step, MaxLongSamples)

SpecLong == InitPipe /\ [][NextLong]_vars

\* The trip history, asked for between the samples of a lifecycle scenario.
\* TripDetectionEngine.getTripHistory(limit): completedTrips.slice(-limit).
\* slice takes -0 as 0, the start of the array.
getTripHistory(e, limit) ==
    IF limit = 0 THEN e.completedTrips ELSE LastN(e.completedTrips, limit)

MaxHistorySamples == 4

HistoryLimits == 0 .. 3

GetTripHistory(limit) ==
    /\ nCommands > 0
    /\ lastOp' = [op |-> "getTripHistory", location |-> None,
                  limit |-> limit, result |-> getTripHistory(engine, limit)]
    /\ UNCHANGED <<engine, now, pos, nSamples, nCommands, interval, events,
                   calls, service, manager, runtime>>

NextHistory ==
    \/ \E o \in QuietObservers : RegisterObservers(o)
    \/ StartDetection
    \/ StopDetection
    \/ \E step \in LifecycleSteps(engine) : ProcessLocationUpdate(step, MaxHistorySamples)
    \/ \E limit \in HistoryLimits : GetTripHistory(limit)

SpecHistory == Init /\ [][NextHistory]_vars

(***************************************************************************)
(* The manager and the services, call by call and await by await.  A call  *)
(* runs to its first await of the platform (the permissions, the           *)
(* subscription) or of the store; the awaits of functions that await       *)
(* nothing themselves resume before anything else runs.                    *)
(***************************************************************************)
MaxCalls == 3
MaxAsyncSamples == 3

InFlight == 1..Len(runtime.tasks)

\* A step of a call: what it was given, and the calls that returned in it.
Settles(op, c, input) ==
    /\ RunPipe(c)
    /\ lastOp' = [op |-> op, location |-> None, input |-> input,
                  returned |-> c.ret]
    /\ UNCHANGED <<now, pos, nSamples, interval>>

\* the client calls fn
Called(c, fn) == [c EXCEPT !.rt.lastCall = fn]

StartTrackingCall ==
    /\ nCommands < MaxCalls
    /\ Settles("startTrackingCall",
               startTrackingCall(Called(PipeCtx, "startTracking"), "client"), None)
    /\ nCommands' = nCommands + 1

StopTrackingCall ==
    /\ nCommands < MaxCalls
    /\ Settles("stopTrackingCall",
               Returned(stopTracking(Called(PipeCtx, "stopTracking")),
                        "stopTracking", TRUE), None)
    /\ nCommands' = nCommands + 1

\* A client that awaits each call before the next, or (concurrent) one that
\* calls at any time.
StartIntegratedTrackingCall(concurrent) ==
    /\ nCommands < MaxCalls
    /\ IsSome(manager)
    /\ concurrent \/ runtime.tasks = <<>>
    /\ Settles("startIntegratedTrackingCall", startIntegratedTrackingCall(PipeCtx),
               None)
    /\ nCommands' = nCommands + 1

StopIntegratedTrackingCall(concurrent) ==
    /\ nCommands < MaxCalls
    /\ IsSome(manager)
    /\ concurrent \/ runtime.tasks = <<>>
    /\ Settles("stopIntegratedTrackingCall",
               stopIntegratedTrackingCall(PipeCtx, now),
               Some(Val(manager).accumulatedTripData))
    /\ nCommands' = nCommands + 1

PermissionsResolve(i, outcome) ==
    /\ runtime.tasks[i].at = "permissions"
    /\ Settles("permissionsResolve", permissionsResolve(PipeCtx, now, i, outcome),
               Some(outcome))
    /\ UNCHANGED nCommands

WatchResolve(i, engineStart) ==
    /\ runtime.tasks[i].at = "watchPositionAsync"
    /\ Settles("watchResolve", watchResolve(PipeCtx, now, i, engineStart),
               Some(engineStart))
    /\ UNCHANGED nCommands

SaveCompletedTripResolve(i, saved) ==
    /\ runtime.tasks[i].at = "saveCompletedTrip"
    /\ Settles("saveCompletedTripResolve",
               saveCompletedTripResolve(PipeCtx, now, i, saved), Some(saved))
    /\ UNCHANGED nCommands

SaveTripResolve(i, saved) ==
    /\ runtime.tasks[i].at = "saveTrip"
    /\ Settles("saveTripResolve", saveTripResolve(PipeCtx, now, i, saved),
               Some(saved))
    /\ UNCHANGED nCommands

\* the vehicle drives on at 54 km/h
AsyncSteps == { Fix(10000, 150) }

\* One client, one call at a time; the platform may deny the permissions
\* or fail to make the subscription, the store may fail to save.
NextManager ==
    \/ StartIntegratedTrackingCall(FALSE)
    \/ StopIntegratedTrackingCall(FALSE)
    \/ \E i \in InFlight, outcome \in {"granted", "denied", "unavailable"} :
           PermissionsResolve(i, outcome)
    \/ \E i \in InFlight : WatchResolve(i, "ok")
    \/ \E i \in InFlight, saved \in BOOLEAN : SaveCompletedTripResolve(i, saved)
    \/ \E i \in InFlight, saved \in BOOLEAN : SaveTripResolve(i, saved)
    \/ \E step \in AsyncSteps : HandleLocationUpdate(step, MaxAsyncSamples)

SpecManager == InitPipe /\ [][NextManager]_vars

\* The same, with an engine whose start may report failure.
NextFailFast ==
    \/ StartIntegratedTrackingCall(FALSE)
    \/ StopIntegratedTrackingCall(FALSE)
    \/ \E i \in InFlight, outcome \in {"granted", "denied", "unavailable"} :
           PermissionsResolve(i, outcome)
    \/ \E i \in InFlight, engineStart \in {"ok", "throws"} :
           WatchResolve(i, engineStart)
    \/ \E i \in InFlight, saved \in BOOLEAN : SaveCompletedTripResolve(i, saved)
    \/ \E i \in InFlight, saved \in BOOLEAN : SaveTripResolve(i, saved)
    \/ \E step \in AsyncSteps : HandleLocationUpdate(step, MaxAsyncSamples)

SpecFailFast == InitPipe /\ [][NextFailFast]_vars

\* Calls of the manager at any time, also while others are in flight.
NextAsync ==
    \/ StartIntegratedTrackingCall(TRUE)
    \/ StopIntegratedTrackingCall(TRUE)
    \/ \E i \in InFlight, outcome \in {"granted", "denied"} :
           PermissionsResolve(i, outcome)
    \/ \E i \in InFlight : WatchResolve(i, "ok")
    \/ \E i \in InFlight, saved \in BOOLEAN : SaveCompletedTripResolve(i, saved)
    \/ \E i \in InFlight, saved \in BOOLEAN : SaveTripResolve(i, saved)
    \/ \E step \in AsyncSteps : HandleLocationUpdate(step, MaxAsyncSamples)

SpecAsync == InitPipe /\ [][NextAsync]_vars

\* Calls of the location service at any time.
NextTracking ==
    \/ StartTrackingCall
    \/ StopTrackingCall
    \/ \E i \in InFlight, outcome \in {"granted", "denied"} :
           PermissionsResolve(i, outcome)
    \/ \E i \in InFlight : WatchResolve(i, "ok")
    \/ \E step \in AsyncSteps : HandleLocationUpdate(step, MaxAsyncSamples)

SpecTracking == InitPipe /\ [][NextTracking]_vars

(***************************************************************************)
(* Vocabulary of the properties                                            *)
(***************************************************************************)
EvOfType(evs, type) == SelectSeq(evs, LAMBDA ev : ev.type = type)

Last(s) == s[Len(s)]

\* The step is processLocationUpdate on a running engine in state st.
ProcessedIn(st) ==
    /\ lastOp'.op = "processLocationUpdate"
    /\ engine.isActiveState
    /\ engine.currentTripState = st

Sample == Val(lastOp'.location)

\* The last 10 points of the movement buffer once the sample is in it, and
\* the metrics over them, in the units of the specification.
Window == LastN(Append(engine.movementBuffer, Sample), 10)
WindowDistance == PathLength(Window)
WindowTimeSpan == Last(Window).timestamp - Window[1].timestamp
WindowDirect == Abs(Last(Window).pos - Window[1].pos)
WindowSpeedGt(kmh) ==
    WindowTimeSpan > 0 /\ WindowDistance * 36 > (kmh * WindowTimeSpan) \div 100

Candidate == Val(engine.currentTripData)
RouteMetres(trip) == PathLength(trip.route)

\* The step appended exactly one trip to the history.
Appended == Len(engine'.completedTrips) = Len(engine.completedTrips) + 1

\* Milliseconds since the first sample of the stop now in the stop buffer.
StopLasted == now' - engine.stopBuffer[1].timestamp

(***************************************************************************)
(* C1: from potential_end with a candidate whose route is longer than      *)
(* 500 m, the sample that finds the stop to have lasted more than 7.5 min  *)
(* completes the trip: tripCompleted with status 'completed' and           *)
(* totalDistance the route distance, the trip appended to the history,     *)
(* the engine back in idle.                                                *)
(***************************************************************************)
C1_CompletedAfterLongStop ==
    [][ ( /\ ProcessedIn("potential_end")
          /\ IsSome(engine.currentTripData)
          /\ RouteMetres(Candidate) > 500
          /\ Len(engine.stopBuffer) > 0
          /\ StopLasted * 2 > 15 * 60000 )
        => ( /\ engine'.currentTripState = "idle"
             /\ Appended
             /\ Last(engine'.completedTrips).tripStatus = "completed"
             /\ \E i \in 1..Len(events') :
                  /\ events'[i].type = "tripCompleted"
                  /\ events'[i].tripStatus = "completed"
                  /\ events'[i].tripId = Candidate.tripId
                  /\ events'[i].totalDistance = RouteMetres(Candidate) ) ]_vars

(***************************************************************************)
(* C2: from potential_end, the sample that finds the stop to have lasted   *)
(* more than 15 min finalizes the trip whatever its distance (status       *)
(* 'force_completed', or 'completed' when the route is longer than 500 m   *)
(* and the completion row applies), appends it to the history and returns  *)
(* to idle: the engine does not stay in potential_end.                     *)
(***************************************************************************)
C2_ForcedAfterTimeout ==
    [][ ( /\ ProcessedIn("potential_end")
          /\ IsSome(engine.currentTripData)
          /\ Len(engine.stopBuffer) > 0
          /\ StopLasted > 15 * 60000 )
        => ( /\ engine'.currentTripState = "idle"
             /\ Appended
             /\ Last(engine'.completedTrips).tripId = Candidate.tripId
             /\ Len(EvOfType(events', "tripCompleted")) = 1
             /\ \/ Last(engine'.completedTrips).tripStatus = "force_completed"
                \/ /\ Last(engine'.completedTrips).tripStatus = "completed"
                   /\ RouteMetres(Candidate) > 500 ) ]_vars

(***************************************************************************)
(* C3: in active, a stationary sample (within 50 m of the last significant *)
(* location) that finds every sample since the last significant location   *)
(* stationary over a span longer than 5 minutes moves the engine to        *)
(* potential_end, whatever the sampling period.                            *)
(***************************************************************************)
\* The samples of the movement buffer taken after the last significant one.
SinceSignificant ==
    SelectSeq(Append(engine.movementBuffer, Sample),
              LAMBDA p : p.timestamp > Val(engine.lastSignificantLocation).timestamp)

C3_LongStopEndsActive ==
    [][ ( /\ ProcessedIn("active")
          /\ Abs(Sample.pos - Val(engine.lastSignificantLocation).pos) < 50
          /\ Sample.timestamp - SinceSignificant[1].timestamp > 5 * 60000 )
        => engine'.currentTripState = "potential_end" ]_vars

(***************************************************************************)
(* C4: stopDetection in active or potential_end with a candidate emits     *)
(* exactly one tripCompleted with status 'force_completed' for it and      *)
(* appends it to the history before the engine returns to idle.            *)
(***************************************************************************)
C4_StopFinalizesCandidate ==
    [][ ( /\ lastOp'.op = "stopDetection"
          /\ engine.currentTripState \in {"active", "potential_end"}
          /\ IsSome(engine.currentTripData) )
        => ( /\ Len(EvOfType(events', "tripCompleted")) = 1
             /\ EvOfType(events', "tripCompleted")[1].tripStatus = "force_completed"
             /\ EvOfType(events', "tripCompleted")[1].tripId = Candidate.tripId
             /\ Appended
             /\ Last(engine'.completedTrips).tripId = Candidate.tripId
             /\ engine'.currentTripState = "idle"
             /\ engine'.currentTripData = None ) ]_vars

(***************************************************************************)
(* C5: a throwing observer neither aborts the pipeline nor corrupts the    *)
(* engine: every operation invokes the same observers, emits the same      *)
(* events (stateChanged included) and leaves the same engine state as it   *)
(* does from the same state with observers that return normally.           *)
(***************************************************************************)
Calm(b) == IF b = "throws" THEN "ok" ELSE b
CalmAll(list) == [i \in 1..Len(list) |-> Calm(list[i])]

\* The engine with every throwing observer replaced by one that returns.
Quiet(e) ==
    [e EXCEPT !.onTripStart = Calm(@), !.onTripEnd = Calm(@),
              !.onTripUpdate = Calm(@), !.onStopDetected = Calm(@),
              !.tripEventListeners = CalmAll(@),
              !.tripStartListeners = CalmAll(@),
              !.tripEndListeners = CalmAll(@),
              !.tripUpdateListeners = CalmAll(@),
              !.stopDetectedListeners = CalmAll(@)]

\* What operation op does from engine e at time t.
Outcome(op, e, t) ==
    CASE op.op = "processLocationUpdate" ->
           processLocationUpdate(Ctx(e), Val(op.location), t)
      [] op.op = "startDetection" -> startDetection(Ctx(e), t)
      [] op.op = "stopDetection" -> stopDetection(Ctx(e), t)
      [] OTHER -> Ctx(e)

C5_ObserverFaultsIsolated ==
    [][ lastOp'.op \in {"processLocationUpdate", "startDetection", "stopDetection"}
        => LET calm == Outcome(lastOp', Quiet(engine), now')
           IN  /\ Quiet(engine') = calm.eng
               /\ events' = calm.events
               /\ calls' = calm.calls ]_vars

(***************************************************************************)
(* C6: in potential_start a processed sample moves the engine to active    *)
(* exactly when the distance from the candidate's start exceeds 500 m, the *)
(* windowed average speed exceeds 3 km/h and at least 30 000 ms have       *)
(* passed since the candidate was created; confidence then becomes 0.85    *)
(* and exactly one tripStarted is emitted for the candidate.               *)
(***************************************************************************)
C6_ConfirmAtThirtySeconds ==
    [][ ProcessedIn("potential_start")
        => ( /\ (engine'.currentTripState = "active")
                 <=> ( /\ Abs(Sample.pos - Candidate.startLocation.pos) > 500
                       /\ WindowSpeedGt(3)
                       /\ now' - Val(engine.tripStartTime) >= 30000 )
             /\ (engine'.currentTripState = "active")
                 => ( /\ Val(engine'.currentTripData).confidence = 85
                      /\ Len(EvOfType(events', "tripStarted")) = 1
                      /\ EvOfType(events', "tripStarted")[1].tripId = Candidate.tripId ) ) ]_vars

(***************************************************************************)
(* C7: in potential_start, the sample processed more than 120 s after the  *)
(* candidate was created, when the confirmation condition does not hold,   *)
(* emits exactly one tripDiscarded with the candidate's tripId and a       *)
(* reason, drops the candidate and returns to idle; no tripStarted or      *)
(* tripCompleted is emitted and nothing is appended to the history.        *)
(***************************************************************************)
C7_DiscardAfterTimeout ==
    [][ ( /\ ProcessedIn("potential_start")
          /\ now' - Val(engine.tripStartTime) > 120000
          /\ ~( /\ Abs(Sample.pos - Candidate.startLocation.pos) > 500
                /\ WindowSpeedGt(3) ) )
        => ( /\ Len(EvOfType(events', "tripDiscarded")) = 1
             /\ EvOfType(events', "tripDiscarded")[1].tripId = Candidate.tripId
             /\ EvOfType(events', "tripDiscarded")[1].reason # ""
             /\ EvOfType(events', "tripStarted") = <<>>
             /\ EvOfType(events', "tripCompleted") = <<>>
             /\ engine'.completedTrips = engine.completedTrips
             /\ engine'.currentTripData = None
             /\ engine'.currentTripState = "idle" ) ]_vars

C7_Witness ==
    /\ lastOp.op = "processLocationUpdate"
    /\ Len(EvOfType(events, "tripDiscarded")) = 1
    /\ EvOfType(events, "tripDiscarded")[1].duration > 120000
    /\ engine.currentTripState = "idle"
    /\ engine.currentTripData = None

(***************************************************************************)
(* C8: in idle a processed sample moves the engine to potential_start      *)
(* exactly when, over the last 10 points of the movement buffer,           *)
(* totalDistance > 100 m, averageSpeed > 5 km/h and movementConsistency >  *)
(* 0.3; the candidate then has confidence 0.6 and a route of exactly that  *)
(* sample; otherwise the engine stays idle without a candidate.            *)
(***************************************************************************)
StartTriggered ==
    /\ WindowDistance > 100
    /\ WindowSpeedGt(5)
    /\ WindowDirect * 10 > 3 * WindowDistance

C9_ResumeAfterShortStop ==
    [][ /\ ( /\ ProcessedIn("active")
             /\ Abs(Sample.pos - Val(engine.lastSignificantLocation).pos) >= 50 )
           => ( /\ engine'.currentTripState = "active"
                /\ engine'.stopBuffer = <<>>
                /\ engine'.lastSignificantLocation = Some(Sample)
                /\ Len(EvOfType(events', "tripProgress")) = 1
                /\ EvOfType(events', "stopDetected") = <<>> )
        /\ ( /\ engine.currentTripState # "potential_end"
             /\ engine'.currentTripState = "potential_end" )
           => ( /\ ProcessedIn("active")
                /\ engine'.stopBuffer # <<>>
                /\ Last(engine'.stopBuffer).timestamp
                     - engine'.stopBuffer[1].timestamp > 5 * 60000 ) ]_vars

\* Movement resumed after a stop: the last route point is away from the two
\* before it, which are the same place.
C9_Witness ==
    /\ lastOp.op = "processLocationUpdate"
    /\ engine.currentTripState = "active"
    /\ engine.stopBuffer = <<>>
    /\ Len(EvOfType(events, "tripProgress")) = 1
    /\ LET route == Val(engine.currentTripData).route
       IN  /\ Len(route) >= 3
           /\ route[Len(route) - 1].pos = route[Len(route) - 2].pos
           /\ route[Len(route) - 1].timestamp - route[Len(route) - 2].timestamp < 5 * 60000
           /\ Abs(Last(route).pos - route[Len(route) - 1].pos) >= 50

(***************************************************************************)
(* C10: a candidate's confidence never decreases: it is 0.6 in             *)
(* potential_start, not lower while the candidate lives on, and the        *)
(* confidence of the record appended to the history ('completed' or        *)
(* 'force_completed') is not lower than the candidate's was.               *)
(***************************************************************************)
SameCandidate ==
    /\ IsSome(engine.currentTripData)
    /\ IsSome(engine'.currentTripData)
    /\ Val(engine'.currentTripData).tripId = Candidate.tripId

Finalized ==
    /\ IsSome(engine.currentTripData)
    /\ Appended
    /\ Last(engine'.completedTrips).tripId = Candidate.tripId

C11_RouteTimeOrdered ==
    IsSome(engine.currentTripData)
    => \A i \in 1..(Len(Candidate.route) - 1) :
          Candidate.route[i].timestamp <= Candidate.route[i + 1].timestamp

(***************************************************************************)
(* C12: whenever a candidate exists its totalDistance is the sum of the    *)
(* distances between consecutive points of its route, also right after the *)
(* transition from potential_start to active (a route of two points) and   *)
(* in the payloads of tripStarted and tripCompleted.                       *)
(***************************************************************************)
C12_TotalDistanceIsRouteSum ==
    /\ IsSome(engine.currentTripData)
       => Candidate.totalDistance * 1000 = RouteMetres(Candidate) * KmScale
    /\ \A i \in 1..Len(events) :
          events[i].type \in {"tripStarted", "tripCompleted"}
          => events[i].totalDistance * 1000 = PathLength(events[i].route) * KmScale

(***************************************************************************)
(* C13: after every operation there is a candidate exactly when the engine *)
(* is not idle (currentTripData is null iff currentTripState is 'idle'),   *)
(* and a new candidate appears only in the step that takes the engine from *)
(* idle to potential_start.                                                *)
(***************************************************************************)
CandidateCreated ==
    /\ IsSome(engine'.currentTripData)
    /\ \/ ~IsSome(engine.currentTripData)
       \/ Val(engine'.currentTripData).tripId # Candidate.tripId

C13_CandidateIffNotIdle ==
    [][ /\ (engine'.currentTripData = None) <=> (engine'.currentTripState = "idle")
        /\ CandidateCreated
           => ( /\ ProcessedIn("idle")
                /\ engine.currentTripData = None
                /\ engine'.currentTripState = "potential_start" ) ]_vars

\* stopDetection has finalized a candidate and left the engine idle without one.
C13_Witness ==
    /\ lastOp.op = "stopDetection"
    /\ Len(EvOfType(events, "tripCompleted")) = 1
    /\ engine.currentTripState = "idle"
    /\ engine.currentTripData = None

(***************************************************************************)
(* C14: every change of currentTripState, by a processed sample, by        *)
(* startDetection or by stopDetection (also when called in active), is     *)
(* reported in the same operation by exactly one stateChanged event whose  *)
(* previousState and newState are the engine's state before and after.     *)
(***************************************************************************)
C14_StateChangeReported ==
    [][ engine'.currentTripState # engine.currentTripState
        => ( /\ Len(EvOfType(events', "stateChanged")) = 1
             /\ EvOfType(events', "stateChanged")[1].previousState
                    = engine.currentTripState
             /\ EvOfType(events', "stateChanged")[1].newState
                    = engine'.currentTripState ) ]_vars

(***************************************************************************)
(* C15: currentTripState is always one of the four states, and a processed *)
(* sample that meets the condition of no row of the transition table       *)
(* leaves the state as it is: potential_start before confirmation or       *)
(* time-out stays potential_start; potential_end before either end         *)
(* condition stays potential_end, also when the sample shows movement; a   *)
(* sample received while detection is not running changes neither the      *)
(* state nor any buffer.                                                   *)
(***************************************************************************)
TripStates == {"idle", "potential_start", "active", "potential_end"}

C15_NoRowNoChange ==
    [][ /\ engine'.currentTripState \in TripStates
        /\ ( /\ ProcessedIn("potential_start")
             /\ ~( /\ Abs(Sample.pos - Candidate.startLocation.pos) > 500
                   /\ WindowSpeedGt(3)
                   /\ now' - Val(engine.tripStartTime) >= 30000 )
             /\ ~(now' - Val(engine.tripStartTime) > 120000) )
           => ( /\ engine'.currentTripState = "potential_start"
                /\ SameCandidate
                /\ events' = <<>> )
        /\ ( /\ ProcessedIn("potential_end")
             /\ Len(engine.stopBuffer) > 0
             /\ ~(StopLasted * 2 > 15 * 60000 /\ RouteMetres(Candidate) > 500)
             /\ ~(StopLasted > 15 * 60000) )
           => ( /\ engine'.currentTripState = "potential_end"
                /\ SameCandidate
                /\ events' = <<>> )
        /\ (lastOp'.op = "processLocationUpdate" /\ ~engine.isActiveState)
           => (engine' = engine /\ events' = <<>>) ]_vars

\* A sample 50 m or more from the last significant location was processed
\* in potential_end, and the engine is still there.
C15_Witness ==
    /\ lastOp.op = "processLocationUpdate"
    /\ engine.currentTripState = "potential_end"
    /\ events = <<>>
    /\ Abs(Val(lastOp.location).pos - Val(engine.lastSignificantLocation).pos) >= 50

(***************************************************************************)
(* Vocabulary of the properties of the location service                    *)
(***************************************************************************)
\* The step is handleLocationUpdate.
Handled == lastOp'.op = "handleLocationUpdate"

\* The reading being handled and the previously accepted one.
Reading == lastOp'.data
HasPrev == IsSome(service.lastKnownLocation)
Prev == Val(service.lastKnownLocation)
FromPrev == Abs(Reading.pos - Prev.pos)
SincePrev == Reading.timestamp - Prev.timestamp

\* The step accepted the reading: it is the new last known location, at the
\* end of the history.
Accepted ==
    /\ Len(service'.locationHistory) = Len(service.locationHistory) + 1
    /\ Last(service'.locationHistory).timestamp = Reading.timestamp
    /\ Last(service'.locationHistory).pos = Reading.pos
    /\ service'.lastKnownLocation = Some(Last(service'.locationHistory))

\* The rejection rules as the specification states them.
Rejectable ==
    \/ Reading.accuracy > 50
    \/ Reading.age > 30000
    \/ Abs(Reading.pos) > LatitudeLimit
    \/ Abs(Reading.lon) > 180
    \/ (HasPrev /\ FromPrev < 1 /\ SincePrev < 2000)

\* The engine took a sample into its movement buffer.
EngineFed ==
    /\ engine'.movementBuffer # engine.movementBuffer
    /\ engine'.movementBuffer # <<>>

(***************************************************************************)
(* C16: passesQualityFilter returns false exactly when accuracy > 50 m, or *)
(* age > 30 000 ms, or |latitude| > 90 or |longitude| > 180, or there is a *)
(* previous accepted reading less than 1 m away and less than 2000 ms      *)
(* older; the limits themselves (accuracy 50, age 30 000, latitude 90) are *)
(* accepted.  A reading is accepted by the service exactly when it passes. *)
(***************************************************************************)
C16_FilterRejectsExactly ==
    [][ Handled
        => /\ lastOp'.passed <=> ~Rejectable
           /\ lastOp'.passed <=> Accepted ]_vars

\* A reading with accuracy 80 was rejected after another had been accepted.
C16_Witness ==
    /\ lastOp.op = "handleLocationUpdate"
    /\ lastOp.data.accuracy = 80
    /\ ~lastOp.passed
    /\ IsSome(service.lastKnownLocation)

(***************************************************************************)
(* C17: an accepted reading handed to handleLocationUpdate again right     *)
(* after (same coordinates and timestamp) is rejected as a duplicate:      *)
(* locationHistory and lastKnownLocation stay as the first call left them  *)
(* and no listener is notified a second time.                              *)
(***************************************************************************)
C17_SecondDeliveryRejected ==
    [][ ( /\ Handled
          /\ lastOp.op = "handleLocationUpdate"
          /\ lastOp.passed
          /\ lastOp'.location = lastOp.location )
        => ( /\ ~lastOp'.passed
             /\ service' = service
             /\ calls' = <<>>
             /\ events' = <<>>
             /\ engine' = engine
             /\ manager' = manager ) ]_vars

\* The reading just rejected is the last known location itself, delivered
\* once more.
C17_Witness ==
    /\ lastOp.op = "handleLocationUpdate"
    /\ ~lastOp.passed
    /\ IsSome(service.lastKnownLocation)
    /\ Val(service.lastKnownLocation).pos = lastOp.data.pos
    /\ Val(service.lastKnownLocation).timestamp = lastOp.data.timestamp
    /\ Val(service.lastKnownLocation).accuracy = lastOp.data.accuracy
    /\ Val(service.lastKnownLocation).lon = lastOp.data.lon
    /\ calls = <<>>

(***************************************************************************)
(* C18: a reading the quality filter rejects changes nothing:              *)
(* lastKnownLocation, locationHistory and every other field of the service *)
(* stay as they were, no listener is called, and the reading is not passed *)
(* to the engine; a sample enters the engine only in the handling of a     *)
(* reading that passed the filter, and it is that reading.                 *)
(***************************************************************************)
C18_RejectedChangesNothing ==
    [][ /\ (Handled /\ Rejectable)
           => ( /\ service' = service
                /\ calls' = <<>>
                /\ events' = <<>>
                /\ engine' = engine
                /\ manager' = manager )
        /\ EngineFed
           => ( /\ Handled
                /\ ~Rejectable
                /\ Last(engine'.movementBuffer).pos = Reading.pos
                /\ Last(engine'.movementBuffer).timestamp = Reading.timestamp ) ]_vars

\* A stale reading was dropped while the engine was running on earlier ones.
C18_Witness ==
    /\ lastOp.op = "handleLocationUpdate"
    /\ lastOp.data.age > 30000
    /\ ~lastOp.passed
    /\ calls = <<>>
    /\ engine.isActiveState
    /\ Len(engine.movementBuffer) > 0
    /\ Val(manager).isIntegratedTracking

(***************************************************************************)
(* C19: for an accepted reading with a previous accepted one,              *)
(* detectMovement is true exactly when the distance from it is at least    *)
(* 5 m, the implied speed (distance over elapsed time, in km/h) is at most *)
(* 200 and the movement is consistent: 100 m after 10 s (36 km/h) is       *)
(* movement, more than 200 km/h is not, nor is a jump in zero or negative  *)
(* elapsed time.  With no previous reading it is true.                     *)
(***************************************************************************)
\* The movement listeners were notified.
MovementNotified ==
    \E i \in 1..Len(calls') : calls'[i][3] = "movementDetected"

\* distance / elapsed <= 200 km/h, in metres and milliseconds
ImpliedSpeedAtMost200 == SincePrev > 0 /\ FromPrev * 18 <= SincePrev

C19_GenuineMovement ==
    [][ (Handled /\ ~Rejectable)
        => /\ lastOp'.moved <=> MovementNotified
           /\ lastOp'.moved
              <=> IF HasPrev
                  THEN /\ FromPrev >= 5
                       /\ ImpliedSpeedAtMost200
                       /\ lastOp'.consistent
                  ELSE TRUE ]_vars

(***************************************************************************)
(* C20: isMovementConsistent is true whenever locationHistory holds fewer  *)
(* than 3 points; otherwise, over the last 3 points of the history and the *)
(* new reading, it is true exactly when directDistance divided by the sum  *)
(* of the segment distances exceeds 0.3 or that sum exceeds 50 m, and so   *)
(* false when the four points coincide.                                    *)
(***************************************************************************)
\* The last three accepted readings and the new one.
FourPoints == Append(LastN(service.locationHistory, 3), Reading)
SegmentSum == PathLength(FourPoints)
Direct == Abs(FourPoints[4].pos - FourPoints[1].pos)

Classified ==
    { service.locationHistory[i] : i \in
        { j \in 1..Len(service.locationHistory) :
            IsSome(service.locationHistory[j].movement) } }

TypeOf(p) == Val(p.movement).movementType

C21_ClassifiedBySpeed ==
    \A p \in Classified :
        /\ TypeOf(p) = "stationary" <=> (~IsSome(p.speed) \/ Val(p.speed) < 5)
        /\ TypeOf(p) = "walking" <=>
               (IsSome(p.speed) /\ 5 <= Val(p.speed) /\ Val(p.speed) < 20)
        /\ TypeOf(p) = "running" <=>
               (IsSome(p.speed) /\ 20 <= Val(p.speed) /\ Val(p.speed) < 80)
        /\ TypeOf(p) = "driving" <=> (IsSome(p.speed) /\ 80 <= Val(p.speed))

\* Readings at exactly 0.5 m/s and at exactly 8 m/s were classified.
C21_Witness ==
    /\ \E p \in Classified : p.speed = Some(5) /\ TypeOf(p) = "walking"
    /\ \E p \in Classified : p.speed = Some(80) /\ TypeOf(p) = "driving"

(***************************************************************************)
(* C22: the location history never holds more than 50 entries, the         *)
(* movement buffer never more than 100 and the stop buffer never more than *)
(* 20; a sample appended to a full buffer removes exactly the oldest entry *)
(* and the others keep their order.                                        *)
(***************************************************************************)
\* the buffer is as it was, was emptied, or took one entry at its end,
\* losing its first one if and only if it was full
Grown(old, new, cap) ==
    \/ new = old
    \/ new = <<>>
    \/ new = IF Len(old) < cap THEN Append(old, Last(new))
             ELSE Append(Tail(old), Last(new))

C22_BuffersCapped ==
    [][ /\ Len(service'.locationHistory) <= 50
        /\ Len(engine'.movementBuffer) <= 100
        /\ Len(engine'.stopBuffer) <= 20
        /\ Grown(service.locationHistory, service'.locationHistory, 50)
        /\ Grown(engine.movementBuffer, engine'.movementBuffer, 100)
        /\ Grown(engine.stopBuffer, engine'.stopBuffer, 20) ]_vars

\* All three buffers are full and each has lost entries.
C22_Witness ==
    /\ Len(service.locationHistory) = 50
    /\ Len(engine.movementBuffer) = 100
    /\ Len(engine.stopBuffer) = 20
    /\ nSamples > 100
    /\ engine.movementBuffer[1].timestamp > 10000
    /\ engine.stopBuffer[1].timestamp > service.locationHistory[1].timestamp

(***************************************************************************)
(* C23: the transition log never holds more than 50 entries and always     *)
(* retains the 50 most recent state transitions (stateChanged records) in  *)
(* order, whatever other events are emitted in between: as long as it      *)
(* holds fewer than 50 of them, no state transition it held is lost.       *)
(***************************************************************************)
IsStateChange(r) == r.type = "stateChanged"
StateChanges(log) == SelectSeq(log, IsStateChange)

C23_TransitionsRetained ==
    [][ LET old == StateChanges(engine.recentStateTransitions)
            new == StateChanges(engine'.recentStateTransitions)
        IN  /\ Len(engine'.recentStateTransitions) <= 50
            /\ Len(new) < 50 =>
                   /\ Len(old) <= Len(new)
                   /\ SubSeq(new, 1, Len(old)) = old ]_vars

(***************************************************************************)
(* Vocabulary of the analysis                                              *)
(***************************************************************************)
Analyzed == lastOp.op \in {"analyzeTripData", "stopIntegratedTracking"}
                /\ IsSome(lastOp.analysis)
Analysis == Val(lastOp.analysis)
AnalyzedRoute == Analysis.route
RouteKmGt(km) == PathLength(AnalyzedRoute) > km * 1000

(***************************************************************************)
(* C24: the confidence of an analysed route is min(0.95, 0.5 + 0.2 if it   *)
(* is longer than 5 km + 0.1 if longer than 20 km + 0.1 if it has more     *)
(* than 10 points per km + 0.1 if more than 20 points per km), and so      *)
(* always between 0.5 and 0.95.                                            *)
(***************************************************************************)
PointsPerKmGt(k) == Len(AnalyzedRoute) * 1000 > k * PathLength(AnalyzedRoute)

Bonus(cond, b) == IF cond THEN b ELSE 0
Capped(x) == IF x < 95 THEN x ELSE 95

C24_ConfidenceFormula ==
    Analyzed =>
        /\ Analysis.confidence =
               Capped(50 + Bonus(RouteKmGt(5), 20) + Bonus(RouteKmGt(20), 10)
                         + Bonus(PointsPerKmGt(10), 10)
                         + Bonus(PointsPerKmGt(20), 10))
        /\ Analysis.confidence \in 50..95

\* C24 as amended: the same, the points per km being counted over the
\* route's length or 0.1 km, whichever is greater.
PointsPerFlooredKmGt(k) ==
    Len(AnalyzedRoute) * 1000 >
        k * (IF PathLength(AnalyzedRoute) > 100 THEN PathLength(AnalyzedRoute)
             ELSE 100)

C24_ConfidenceFormulaFloored ==
    Analyzed =>
        /\ Analysis.confidence =
               Capped(50 + Bonus(RouteKmGt(5), 20) + Bonus(RouteKmGt(20), 10)
                         + Bonus(PointsPerFlooredKmGt(10), 10)
                         + Bonus(PointsPerFlooredKmGt(20), 10))
        /\ Analysis.confidence \in 50..95

\* A route of more than 20 km with more than 20 points per km was analysed:
\* all four rewards, capped.
C24_Witness ==
    /\ Analyzed
    /\ RouteKmGt(20) /\ PointsPerFlooredKmGt(20)
    /\ Analysis.confidence = 95

(***************************************************************************)
(* C25: the quality score of an analysed route is the mean, over all its   *)
(* points, of 1.0 for an accuracy of at most 50 m (accuracy 0 included),   *)
(* 0.7 for an accuracy above 50 m and at most 100 m, and 0.3 otherwise.    *)
(***************************************************************************)
ScoreByAccuracy(p) ==
    IF p.accuracy <= 50 THEN 100 ELSE IF p.accuracy <= 100 THEN 70 ELSE 30

RECURSIVE ScoresAdded(_, _, _)
ScoresAdded(route, a, b) ==
    IF b < a THEN 0
    ELSE IF b = a THEN ScoreByAccuracy(route[a])
    ELSE ScoresAdded(route, a, (a + b) \div 2)
             + ScoresAdded(route, ((a + b) \div 2) + 1, b)

C25_QualityIsMeanScore ==
    Analyzed =>
        Analysis.qualityScore =
            ScoresAdded(AnalyzedRoute, 1, Len(AnalyzedRoute)) \div Len(AnalyzedRoute)

(***************************************************************************)
(* C26: every analysed route is classified by its average speed: city      *)
(* below 20 km/h, suburban from 20 to below 60 km/h, highway from 60 km/h  *)
(* on; the result is always one of the three, and highway is returned      *)
(* only when the route's average speed is at least 60 km/h.                *)
(***************************************************************************)
RouteTime ==
    AnalyzedRoute[Len(AnalyzedRoute)].timestamp.ms - AnalyzedRoute[1].timestamp.ms

\* metres * 3600 / ms >= kmh
RouteSpeedAtLeast(kmh) == PathLength(AnalyzedRoute) * (3600 \div kmh) >= RouteTime

C26_PatternByAverageSpeed ==
    Analyzed =>
        /\ Analysis.movementPattern \in
               {"city_driving", "suburban_driving", "highway_driving"}
        /\ Analysis.movementPattern = "highway_driving" => RouteSpeedAtLeast(60)
        /\ RouteTime > 0 =>
               /\ Analysis.movementPattern = "city_driving" <=> ~RouteSpeedAtLeast(20)
               /\ Analysis.movementPattern = "suburban_driving" <=>
                      (RouteSpeedAtLeast(20) /\ ~RouteSpeedAtLeast(60))

(***************************************************************************)
(* C27: every confidence on a trip candidate or on a completed trip, and   *)
(* every quality score and confidence the analyzer returns, lies between   *)
(* 0 and 1.                                                                *)
(***************************************************************************)
C27_ScoresWithinUnit ==
    /\ IsSome(engine.currentTripData) => Candidate.confidence \in 0..100
    /\ \A i \in 1..Len(engine.completedTrips) :
           engine.completedTrips[i].confidence \in 0..100
    /\ Analyzed => /\ Analysis.qualityScore \in 0..100
                   /\ Analysis.confidence \in 0..100

\* Tracking was stopped during a confirmed trip: the trip was recorded and
\* the samples were analysed.
C27_Witness ==
    /\ lastOp.op = "stopIntegratedTracking"
    /\ Analyzed
    /\ engine.completedTrips # <<>>

(***************************************************************************)
(* C28: the engine changes its state only inside processLocationUpdate,    *)
(* startDetection and stopDetection.  While no sample arrives, a           *)
(* potential_start candidate older than 120 s, or an overdue stop, stays   *)
(* as it is, and the time-out transition is taken by the first sample      *)
(* processed after the deadline.                                           *)
(***************************************************************************)
TripStateOf(e) ==
    <<e.isActiveState, e.currentTripState, e.currentTripData, e.tripStartTime,
      e.movementBuffer, e.stopBuffer, e.completedTrips>>

C28_StateChangesOnlyOnSamples ==
    [][ /\ TripStateOf(engine') # TripStateOf(engine) =>
               lastOp'.op \in {"processLocationUpdate", "startDetection",
                               "stopDetection"}
        /\ ( /\ ProcessedIn("potential_start")
              /\ now' - Val(engine.tripStartTime) > 120000 )
               => engine'.currentTripState # "potential_start"
        /\ ( /\ ProcessedIn("potential_end")
              /\ IsSome(engine.currentTripData)
              /\ Len(engine.stopBuffer) > 0
              /\ StopLasted > 15 * 60000 )
               => engine'.currentTripState # "potential_end" ]_vars

(***************************************************************************)
(* C29: processLocationUpdate never throws, whatever the sample (a null    *)
(* one included), and a sample whose processing fails is ignored: the      *)
(* state, the candidate, the movement buffer and the stop buffer are the   *)
(* same after the call as before it.                                       *)
(***************************************************************************)
C29_FailedSampleIgnored ==
    [][ lastOp'.op = "processLocationUpdate" =>
            /\ ~lastOp'.threw
            /\ lastOp'.failed =>
                   /\ engine'.currentTripState = engine.currentTripState
                   /\ engine'.currentTripData = engine.currentTripData
                   /\ engine'.movementBuffer = engine.movementBuffer
                   /\ engine'.stopBuffer = engine.stopBuffer ]_vars

(***************************************************************************)
(* C30: listeners are subscribed and unsubscribed by reference.  Adding a  *)
(* function that is registered already leaves it registered once, and it   *)
(* is called once per event; a removed listener is no longer called;       *)
(* adding something that is no function, or removing a function that is    *)
(* not registered, changes nothing; the other listeners stay as they are.  *)
(***************************************************************************)
ListenerLists(e, s) ==
    [addLocationUpdateListener |-> s.locationUpdateListeners,
     removeLocationUpdateListener |-> s.locationUpdateListeners,
     addTrackingStateListener |-> s.trackingStateListeners,
     removeTrackingStateListener |-> s.trackingStateListeners,
     addTripEventListener |-> e.tripEventListeners,
     removeTripEventListener |-> e.tripEventListeners]

AllLists(e, s) ==
    <<s.locationUpdateListeners, s.trackingStateListeners, e.tripEventListeners>>

Registered(list) == { list[i] : i \in 1..Len(list) }
Without(list, l) == SelectSeq(list, LAMBDA x : x # l)

\* how often the listener at index i of the list named slot was called
CallsOf(cs, slot, i) ==
    Cardinality({ k \in 1..Len(cs) : cs[k][1] = slot /\ cs[k][2] = i })

Managing == lastOp'.op \in DOMAIN ListenerLists(engine, service)
Adding == lastOp'.op \in {"addLocationUpdateListener", "addTrackingStateListener",
                          "addTripEventListener"}
Target == ListenerLists(engine, service)[lastOp'.op]
TargetAfter == ListenerLists(engine', service')[lastOp'.op]

C30_ListenersByReference ==
    [][ /\ (Managing /\ Adding) =>
               TargetAfter =
                   IF lastOp'.listener \in Registered(Target)
                      \/ lastOp'.listener = "none"
                   THEN Target ELSE Append(Target, lastOp'.listener)
        /\ (Managing /\ ~Adding) =>
               /\ TargetAfter = Without(Target, lastOp'.listener)
               /\ lastOp'.listener \notin Registered(Target) => TargetAfter = Target
        /\ Managing =>
               \A n \in 1..3 :
                   AllLists(engine', service')[n] # AllLists(engine, service)[n]
                       => AllLists(engine, service)[n] = Target
        /\ \A n \in 1..3 :
               \A i, j \in 1..Len(AllLists(engine', service')[n]) :
                   i # j => AllLists(engine', service')[n][i]
                                # AllLists(engine', service')[n][j]
        /\ ~Managing =>
               /\ \A k \in 1..Len(calls') :
                      /\ calls'[k][1] = "tripEventListeners" =>
                             calls'[k][2] \in 1..Len(engine.tripEventListeners)
                      /\ calls'[k][1] = "locationUpdateListeners" =>
                             calls'[k][2] \in 1..Len(service.locationUpdateListeners)
                      /\ calls'[k][1] = "trackingStateListeners" =>
                             calls'[k][2] \in 1..Len(service.trackingStateListeners)
               /\ \A i \in 1..Len(engine.tripEventListeners) :
                      CallsOf(calls', "tripEventListeners", i) = Len(events')
               /\ lastOp'.op = "handleLocationUpdate" =>
                      \A i \in 1..Len(service.locationUpdateListeners) :
                          CallsOf(calls', "locationUpdateListeners", i)
                              = IF Rejectable THEN 0 ELSE 1
               /\ lastOp'.op \in {"startIntegratedTracking",
                                   "stopIntegratedTracking"} =>
                      \A i \in 1..Len(service.trackingStateListeners) :
                          CallsOf(calls', "trackingStateListeners", i) = 1 ]_vars

\* The listener registered at first was removed and another function added
\* to both lists; a reading was then delivered, and its events, to that one
\* listener only.
C30_Witness ==
    /\ lastOp.op = "handleLocationUpdate"
    /\ engine.tripEventListeners = <<"throws">>
    /\ service.locationUpdateListeners = <<"throws">>
    /\ events # <<>>
    /\ CallsOf(calls, "tripEventListeners", 1) = Len(events)
    /\ CallsOf(calls, "locationUpdateListeners", 1) = 1

\* C31: getTripHistory(limit) returns the min(limit, n) most recently
\* completed trips, in completion order, of the n <= 100 retained ones; with
\* limit 0 it returns none.
Min(a, b) == IF a < b THEN a ELSE b

C31_HistoryIsLastTrips ==
    lastOp.op = "getTripHistory" =>
        LET trips == engine.completedTrips
            n == Len(trips)
            k == Min(lastOp.limit, n)
        IN  /\ n <= 100
            /\ Len(lastOp.result) = k
            /\ \A i \in 1..k : lastOp.result[i] = trips[n - k + i]

\* C33: in potential_end, a sample that does not finalize the trip leaves
\* the candidate (its route and totalDistance), the stop buffer and so the
\* measured stop duration as they were; only the movement buffer grows, by
\* the sample.
StopSpan(e) ==
    IF e.stopBuffer = <<>> THEN 0
    ELSE Last(e.stopBuffer).timestamp - e.stopBuffer[1].timestamp

NotFinalized ==
    /\ engine'.currentTripState = "potential_end"
    /\ engine'.completedTrips = engine.completedTrips

C33_PotentialEndFrozen ==
    [][ (ProcessedIn("potential_end") /\ NotFinalized) =>
            /\ IsSome(engine'.currentTripData)
            /\ Val(engine'.currentTripData).route = Candidate.route
            /\ Val(engine'.currentTripData).totalDistance = Candidate.totalDistance
            /\ engine'.stopBuffer = engine.stopBuffer
            /\ StopSpan(engine') = StopSpan(engine)
            /\ Len(engine'.movementBuffer) =
                   Min(Len(engine.movementBuffer) + 1, 100)
            /\ Last(engine'.movementBuffer).timestamp = Sample.timestamp
            /\ [engine' EXCEPT !.movementBuffer = engine.movementBuffer] = engine ]_vars

\* A sample was processed in potential_end and the engine is still there:
\* the movement buffer is ahead of the stop buffer.
C33_Witness ==
    /\ lastOp.op = "processLocationUpdate"
    /\ engine.currentTripState = "potential_end"
    /\ engine.stopBuffer # <<>>
    /\ Last(engine.movementBuffer).timestamp > Last(engine.stopBuffer).timestamp
    /\ Last(engine.movementBuffer).pos # Last(engine.stopBuffer).location.pos

\* C34: a trip candidate is finalized at most once: no two entries of
\* completedTrips carry the same trip id and no operation emits more than
\* one tripCompleted event, whatever the observers do.
C34_FinalizedOnce ==
    /\ \A i, j \in 1..Len(engine.completedTrips) :
           engine.completedTrips[i].tripId = engine.completedTrips[j].tripId
               => i = j
    /\ Len(EvOfType(events, "tripCompleted")) <= 1

\* C35: over the events emitted so far (the engine's log keeps each with its
\* payload): a tripCompleted event follows a tripStarted event of the same
\* trip id, a tripDiscarded event follows no tripStarted event of its id,
\* and no trip id has both a tripCompleted and a tripDiscarded event.
Emitted == engine.recentStateTransitions

EmittedFor(type, id, upto) ==
    \E j \in 1..upto : Emitted[j].type = type /\ Emitted[j].data.tripId = id

C35_TripEventOrder ==
    \A i \in 1..Len(Emitted) :
        LET id == Emitted[i].data.tripId IN
        /\ Emitted[i].type = "tripCompleted" => EmittedFor("tripStarted", id, i - 1)
        /\ Emitted[i].type = "tripDiscarded" =>
               /\ ~EmittedFor("tripStarted", id, Len(Emitted))
               /\ ~EmittedFor("tripCompleted", id, Len(Emitted))

\* One candidate was discarded, a later one started and completed.
C35_Witness ==
    \E i, j, k \in 1..Len(Emitted) :
        /\ i < j /\ j < k
        /\ Emitted[i].type = "tripDiscarded"
        /\ Emitted[j].type = "tripStarted"
        /\ Emitted[k].type = "tripCompleted"
        /\ Emitted[k].data.tripId = Emitted[j].data.tripId

\* C36: every stateChanged event an operation emits (a processed sample,
\* startDetection, stopDetection) reports two different states.
C36_StateChangedIsTransition ==
    \A i \in 1..Len(events) :
        events[i].type = "stateChanged"
            => events[i].previousState # events[i].newState

\* C37: startDetection while detection is running returns success, emits
\* no event and changes nothing of the engine (state, candidate, buffers);
\* from the inactive state it returns success and leaves the engine running
\* in idle with no candidate and empty buffers.
Started == lastOp'.op = "startDetection"

C37_StartWhileActiveIsNoOp ==
    [][ Started =>
          /\ startDetectionReply(Ctx(engine), now).success
          /\ IF engine.isActiveState
             THEN engine' = engine /\ events' = <<>> /\ calls' = <<>>
             ELSE /\ engine'.isActiveState
                  /\ engine'.currentTripState = "idle"
                  /\ engine'.currentTripData = None
                  /\ engine'.movementBuffer = <<>>
                  /\ engine'.stopBuffer = <<>> ]_vars

\* startDetection was called with a candidate in flight, which is still
\* there.
C37_Witness ==
    /\ lastOp.op = "startDetection"
    /\ engine.currentTripState \in {"potential_start", "active", "potential_end"}
    /\ IsSome(engine.currentTripData)
    /\ engine.movementBuffer # <<>>

(***************************************************************************)
(* Vocabulary of the properties of the asynchronous calls                  *)
(***************************************************************************)
\* what the calls of fn that returned in the step of op resolved to
ResultsOf(op, fn) ==
    IF "returned" \in DOMAIN op
    THEN { op.returned[k].result :
             k \in { j \in 1 .. Len(op.returned) : op.returned[j].fn = fn } }
    ELSE {}

\* the location service did not start, or the engine's start reported failure
StartFailed(op) ==
    \/ op.op = "permissionsResolve" /\ op.input \in {Some("denied"), Some("unavailable")}
    \/ op.op = "watchResolve" /\ op.input = Some("throws")

\* locationService.isTracking() and tripDetectionEngine.isActive() are false
ServicesStopped ==
    /\ ~service.isActive
    /\ ~engine.isActiveState

C32_LocationFailureReported ==
    [][\A result \in ResultsOf(lastOp', "startIntegratedTracking") :
          /\ lastOp'.op = "permissionsResolve" => ~result
          /\ ~result => /\ ~Val(manager').isIntegratedTracking
                         /\ ServicesStopped']_vars

BothReady(m) == m.servicesReady.locationService /\ m.servicesReady.tripDetection

\* a reading was handed to the engine or added to accumulatedTripData
Forwarded ==
    /\ lastOp'.op = "handleLocationUpdate"
    /\ \/ engine' # engine
       \/ Len(Val(manager').accumulatedTripData) > Len(Val(manager).accumulatedTripData)

\* forwarding happens only in the fully started state
C38_ForwardedOnlyWhenReady ==
    [][Forwarded => Val(manager).isIntegratedTracking /\ BothReady(Val(manager))]_vars

\* C38: the manager forwards a location update to the engine and accumulates
\* it only while isIntegratedTracking and both servicesReady flags are true,
\* and in every state isIntegratedTracking implies both servicesReady flags,
\* however calls of startIntegratedTracking and stopIntegratedTracking and
\* location updates interleave.
C38_TrackingImpliesReady ==
    [][/\ Forwarded => Val(manager).isIntegratedTracking /\ BothReady(Val(manager))
       /\ Val(manager').isIntegratedTracking => BothReady(Val(manager'))]_vars

\* every call has completed, and the last one issued was stopTracking
StoppedLast == runtime.tasks = <<>> /\ runtime.lastCall = "stopTracking"

\* C39: however calls of startTracking and stopTracking interleave, at most
\* one platform subscription is live at any time, and once all calls have
\* completed with stopTracking issued last, no subscription is live, isActive
\* is false and no further sample is processed.
C39_OneSubscription ==
    [][/\ Cardinality(runtime'.live) <= 1
       /\ StoppedLast' => runtime'.live = {} /\ ~service'.isActive
       /\ StoppedLast => lastOp'.op # "handleLocationUpdate"]_vars

\* the parts of it, one by one
C39_AtMostOneLive == Cardinality(runtime.live) <= 1

C39_StoppedMeansOff == StoppedLast => runtime.live = {} /\ ~service.isActive

ManagerReset(m) ==
    /\ ~m.isIntegratedTracking
    /\ m.servicesReady = NotReady
    /\ m.accumulatedTripData = <<>>
    /\ m.currentTripStartTime = None

\* the step belongs to a stopIntegratedTracking called while tracking
StopOfTracking ==
    lastOp'.op = "stopIntegratedTrackingCall" => Val(manager).isIntegratedTracking

\* the steps of a stopIntegratedTracking the client called
StopSteps ==
    {"stopIntegratedTrackingCall", "saveCompletedTripResolve", "saveTripResolve"}

\* nothing had been accumulated, or the enhanced record was saved
NothingToSaveOrSaved(op) ==
    \/ op.op = "stopIntegratedTrackingCall" /\ op.input = Some(<<>>)
    \/ op.op = "saveCompletedTripResolve" /\ op.input = Some(TRUE)

C40_WitnessSaveFailed ==
    /\ lastOp.op = "saveTripResolve"
    /\ lastOp.input = Some(FALSE)
    /\ ResultsOf(lastOp, "stopIntegratedTracking") = {FALSE}

\* stopped with the enhanced record saved
C40_WitnessSaved ==
    /\ lastOp.op = "saveCompletedTripResolve"
    /\ ResultsOf(lastOp, "stopIntegratedTracking") = {TRUE}
    /\ runtime.saved # <<>>

====
